---- MODULE Spec2Model ----
(***************************************************************************)
(* Model of the Gmail MCP server's sliding-window rate limiter             *)
(* (src/src/rateLimiter.ts), of the configuration it reads                 *)
(* (src/src/config.ts) and of the tool handlers that drive it              *)
(* (src/src/server.ts, src/src/gmail.ts), and of the standalone HTTP/SSE   *)
(* server with its own hourly and daily counters (src/unnamed/part_003).   *)
(*                                                                         *)
(* Time is in milliseconds since process start.  JavaScript runs each      *)
(* synchronous stretch of a handler to completion, so one action is one    *)
(* stretch of code between two awaits.                                     *)
(***************************************************************************)
EXTENDS Integers, Sequences, FiniteSets, TLC

VARIABLES
    now,      \* Date.now(), relative to process start
    state,    \* rateLimiter.ts `state`: hourlyRecords and dailyRecords
    config,   \* config.ts cached `config`: the rateLimit part, or null
    env,      \* process.env as loadEnvFile() leaves it: credentials and limit texts
    log,      \* history: every recordEmailSent call, in order: its time and its caller
    ret,      \* the limiter function called last by an outside caller, and its return value
    req,      \* the tool invocations of the MCP server, one per request slot
    http      \* the standalone HTTP/SSE server: its counters, timers and sends in flight

vars == <<now, state, config, env, log, ret, req, http>>

----------------------------------------------------------------------------
(* Bounds of the model *)

\* limits are drawn from 1..MaxLimit
MaxLimit == 2
\* recordEmailSent calls made by an outside caller of the limiter module
MaxRecords == 2
\* the clock visits the hours 0..NearHours and 24..24+NearHours
NearHours == 1
\* getMaxBatchSize is given the arguments -1 .. MaxRequested
MaxRequested == 2
\* sendEmail calls of the standalone HTTP server that await the Gmail API at once
MaxInFlight == 2
\* SSE sessions opened on the standalone HTTP server
MaxSessions == 2
\* POST /message requests made to the standalone HTTP server
MaxPosts == 2
\* tool invocations handled by the server in one run
MaxRequests == 2
\* recipients of one send_email or send_bulk_emails invocation
MaxRecipients == 2
\* Math.random() is drawn from {0/R, .., (R-1)/R}, R = RandomResolution
RandomResolution == 2

----------------------------------------------------------------------------
(* rateLimiter.ts *)

ONE_HOUR_MS == 60 * 60 * 1000
ONE_DAY_MS == 24 * 60 * 60 * 1000

Max(a, b) == IF a >= b THEN a ELSE b
Min(a, b) == IF a <= b THEN a ELSE b

\* const state = { hourlyRecords: [], dailyRecords: [] }
EmptyState == [hourlyRecords |-> << >>, dailyRecords |-> << >>]

----------------------------------------------------------------------------
(* config.ts *)

\* let config: Config | null = null
NoConfig == [null |-> TRUE]

\* if (config)
ConfigLoaded == "rateLimit" \in DOMAIN config

Digits == <<"0", "1", "2", "3", "4", "5", "6", "7", "8", "9">>

DigitValue(c) == (CHOOSE i \in DOMAIN Digits : Digits[i] = c) - 1

\* the number that a text of digits denotes
RECURSIVE parseDigits(_, _)
parseDigits(text, radix) ==
    IF Len(text) = 1
    THEN DigitValue(text[1])
    ELSE radix * parseDigits(SubSeq(text, 1, Len(text) - 1), radix)
            + DigitValue(text[Len(text)])

\* parseInt(text, radix) of a text of digits, with a minus sign before them or not
parseInt(text, radix) ==
    IF Head(text) = "-"
    THEN 0 - parseDigits(Tail(text), radix)
    ELSE parseDigits(text, radix)

\* the decimal text of n, as an environment variable holds it
RECURSIVE Numeral(_)
Numeral(n) ==
    IF n < 0
    THEN <<"-">> \o Numeral(0 - n)
    ELSE IF n < Len(Digits)
    THEN <<Digits[n + 1]>>
    ELSE Numeral(n \div Len(Digits)) \o <<Digits[(n % Len(Digits)) + 1]>>

\* `process.env.X || fallback`: an unset or empty variable gives the fallback
OrDefault(text, fallback) == IF text = << >> THEN fallback ELSE text

\* the object that getConfig() builds from the environment e
LoadConfig(e) ==
    [rateLimit |->
        [maxPerHour |-> parseInt(OrDefault(e.MAX_EMAILS_PER_HOUR, <<"1", "0">>), 10),
         maxPerDay  |-> parseInt(OrDefault(e.MAX_EMAILS_PER_DAY, <<"5", "0">>), 10)]]

\* getConfig() throws 'Missing required Gmail credentials': nothing cached and one of
\* GMAIL_CLIENT_ID, GMAIL_CLIENT_SECRET, GMAIL_REFRESH_TOKEN, GMAIL_USER_EMAIL missing
getConfigThrows == ~ConfigLoaded /\ ~env.credentials

\* getConfig that builds the object from the environment at every call
getConfig_NoCache == LoadConfig(env)

\* getConfig() when it returns: the cached object, built at the first call
getConfig == IF ConfigLoaded THEN config ELSE LoadConfig(env)

\* the environments of the model: credentials present or not, each limit unset or
\* the text of a number in -1 .. MaxLimit
EnvTexts == {<< >>} \cup {Numeral(n) : n \in -1 .. MaxLimit}

Envs == [credentials : BOOLEAN,
         MAX_EMAILS_PER_HOUR : EnvTexts,
         MAX_EMAILS_PER_DAY : EnvTexts]

\* the .env file or process.env is changed while the process runs
SetEnv ==
    /\ \E e \in Envs : e # env /\ env' = e
    /\ UNCHANGED <<now, state, config, log, ret, req, http>>

----------------------------------------------------------------------------
(* rateLimiter.ts: the functions *)

\* cleanupRecords with `<=` for `<`: an event is kept until one millisecond too late
cleanupRecords_Inclusive(st, t) ==
    [hourlyRecords |-> SelectSeq(st.hourlyRecords,
                                 LAMBDA record : t - record.timestamp <= ONE_HOUR_MS),
     dailyRecords  |-> SelectSeq(st.dailyRecords,
                                 LAMBDA record : t - record.timestamp <= ONE_DAY_MS)]

\* cleanupRecords with the hourly filter pasted for the daily one
cleanupRecords_HourlyForBoth(st, t) ==
    [hourlyRecords |-> SelectSeq(st.hourlyRecords,
                                 LAMBDA record : t - record.timestamp < ONE_HOUR_MS),
     dailyRecords  |-> SelectSeq(st.dailyRecords,
                                 LAMBDA record : t - record.timestamp < ONE_HOUR_MS)]

\* cleanupRecords() with Date.now() = t: the state it leaves
cleanupRecords(st, t) ==
    [hourlyRecords |-> SelectSeq(st.hourlyRecords,
                                 LAMBDA record : t - record.timestamp < ONE_HOUR_MS),
     dailyRecords  |-> SelectSeq(st.dailyRecords,
                                 LAMBDA record : t - record.timestamp < ONE_DAY_MS)]

\* the two remaining values and the decision of canSendEmail, with the hourly test
\* off by one (offByOne), the daily limit tested first (dailyFirst)
AdmissionVariant(cleaned, offByOne, dailyFirst) ==
    LET cfg == getConfig
        hourlyCount == Len(cleaned.hourlyRecords)
        dailyCount == Len(cleaned.dailyRecords)
        remaining == [hourlyRemaining |-> Max(0, cfg.rateLimit.maxPerHour - hourlyCount),
                      dailyRemaining |-> Max(0, cfg.rateLimit.maxPerDay - dailyCount)]
        hourlyFull == IF offByOne THEN hourlyCount > cfg.rateLimit.maxPerHour
                                  ELSE hourlyCount >= cfg.rateLimit.maxPerHour
        dailyFull == dailyCount >= cfg.rateLimit.maxPerDay
        hourly == [allowed |-> FALSE, reason |-> "Hourly limit reached"] @@ remaining
        daily == [allowed |-> FALSE, reason |-> "Daily limit reached"] @@ remaining
    IN  IF dailyFirst /\ dailyFull THEN daily
        ELSE IF hourlyFull THEN hourly
        ELSE IF dailyFull THEN daily
        ELSE [allowed |-> TRUE] @@ remaining

\* canSendEmail that counts the stored arrays without cleanupRecords()
canSendEmail_NoCleanup(st, t) ==
    [state |-> st, value |-> AdmissionVariant(st, FALSE, FALSE)]

\* canSendEmail with `>` for `>=` in the hourly test
canSendEmail_OffByOne(st, t) ==
    [state |-> cleanupRecords(st, t),
     value |-> AdmissionVariant(cleanupRecords(st, t), TRUE, FALSE)]

\* canSendEmail with the daily limit tested before the hourly one
canSendEmail_DailyFirst(st, t) ==
    [state |-> cleanupRecords(st, t),
     value |-> AdmissionVariant(cleanupRecords(st, t), FALSE, TRUE)]

\* canSendEmail that books the slot it grants: an allowed check records an event
canSendEmail_Consuming(st, t) ==
    LET cleaned == cleanupRecords(st, t)
        value == AdmissionVariant(cleaned, FALSE, FALSE)
    IN  [state |-> IF value.allowed
                   THEN [hourlyRecords |-> Append(cleaned.hourlyRecords, [timestamp |-> t]),
                         dailyRecords |-> Append(cleaned.dailyRecords, [timestamp |-> t])]
                   ELSE cleaned,
         value |-> value]

\* canSendEmail() with Date.now() = t: the state it leaves and the value it returns
canSendEmail(st, t) ==
    LET cleaned == cleanupRecords(st, t)
        cfg == getConfig
        hourlyCount == Len(cleaned.hourlyRecords)
        dailyCount == Len(cleaned.dailyRecords)
        hourlyRemaining == Max(0, cfg.rateLimit.maxPerHour - hourlyCount)
        dailyRemaining == Max(0, cfg.rateLimit.maxPerDay - dailyCount)
    IN  [state |-> cleaned,
         value |->
            IF hourlyCount >= cfg.rateLimit.maxPerHour
            THEN [allowed |-> FALSE, reason |-> "Hourly limit reached",
                  hourlyRemaining |-> hourlyRemaining, dailyRemaining |-> dailyRemaining]
            ELSE IF dailyCount >= cfg.rateLimit.maxPerDay
            THEN [allowed |-> FALSE, reason |-> "Daily limit reached",
                  hourlyRemaining |-> hourlyRemaining, dailyRemaining |-> dailyRemaining]
            ELSE [allowed |-> TRUE,
                  hourlyRemaining |-> hourlyRemaining, dailyRemaining |-> dailyRemaining]]

\* recordEmailSent that pushes the record onto the hourly array only
recordEmailSent_HourlyOnly(st, t) ==
    [hourlyRecords |-> Append(st.hourlyRecords, [timestamp |-> t]),
     dailyRecords  |-> st.dailyRecords]

\* recordEmailSent that records nothing once a limit is reached
recordEmailSent_Guarded(st, t) ==
    IF \/ Len(st.hourlyRecords) >= getConfig.rateLimit.maxPerHour
       \/ Len(st.dailyRecords) >= getConfig.rateLimit.maxPerDay
    THEN st
    ELSE [hourlyRecords |-> Append(st.hourlyRecords, [timestamp |-> t]),
          dailyRecords  |-> Append(st.dailyRecords, [timestamp |-> t])]

\* recordEmailSent that puts the record at the front of the arrays (unshift)
recordEmailSent_Prepends(st, t) ==
    [hourlyRecords |-> <<[timestamp |-> t]>> \o st.hourlyRecords,
     dailyRecords  |-> <<[timestamp |-> t]>> \o st.dailyRecords]

\* recordEmailSent() with Date.now() = t: the state it leaves
recordEmailSent(st, t) ==
    LET record == [timestamp |-> t]
    IN  [hourlyRecords |-> Append(st.hourlyRecords, record),
         dailyRecords  |-> Append(st.dailyRecords, record)]

\* getRateLimitStatus that reads the stored arrays without cleanupRecords()
getRateLimitStatus_NoCleanup(st, t) ==
    LET cfg == getConfig
    IN  [state |-> st,
         value |->
            [hourlyCount |-> Len(st.hourlyRecords),
             hourlyLimit |-> cfg.rateLimit.maxPerHour,
             hourlyRemaining |-> Max(0, cfg.rateLimit.maxPerHour - Len(st.hourlyRecords)),
             dailyCount |-> Len(st.dailyRecords),
             dailyLimit |-> cfg.rateLimit.maxPerDay,
             dailyRemaining |-> Max(0, cfg.rateLimit.maxPerDay - Len(st.dailyRecords))]]

\* getRateLimitStatus without Math.max(0, ..)
getRateLimitStatus_NoClamp(st, t) ==
    LET cleaned == cleanupRecords(st, t)
        cfg == getConfig
    IN  [state |-> cleaned,
         value |->
            [hourlyCount |-> Len(cleaned.hourlyRecords),
             hourlyLimit |-> cfg.rateLimit.maxPerHour,
             hourlyRemaining |-> cfg.rateLimit.maxPerHour - Len(cleaned.hourlyRecords),
             dailyCount |-> Len(cleaned.dailyRecords),
             dailyLimit |-> cfg.rateLimit.maxPerDay,
             dailyRemaining |-> cfg.rateLimit.maxPerDay - Len(cleaned.dailyRecords)]]

\* getRateLimitStatus() with Date.now() = t
getRateLimitStatus(st, t) ==
    LET cleaned == cleanupRecords(st, t)
        cfg == getConfig
    IN  [state |-> cleaned,
         value |->
            [hourlyCount |-> Len(cleaned.hourlyRecords),
             hourlyLimit |-> cfg.rateLimit.maxPerHour,
             hourlyRemaining |-> Max(0, cfg.rateLimit.maxPerHour - Len(cleaned.hourlyRecords)),
             dailyCount |-> Len(cleaned.dailyRecords),
             dailyLimit |-> cfg.rateLimit.maxPerDay,
             dailyRemaining |-> Max(0, cfg.rateLimit.maxPerDay - Len(cleaned.dailyRecords))]]

\* getMaxBatchSize that forgets the daily window
getMaxBatchSize_IgnoresDaily(st, t, requested) ==
    LET status == canSendEmail(st, t)
    IN  [state |-> status.state,
         value |-> IF ~status.value.allowed
                   THEN 0
                   ELSE Min(requested, status.value.hourlyRemaining)]

\* getMaxBatchSize(requested) with Date.now() = t
getMaxBatchSize(st, t, requested) ==
    LET status == canSendEmail(st, t)
    IN  [state |-> status.state,
         value |-> IF ~status.value.allowed
                   THEN 0
                   ELSE Min(requested, Min(status.value.hourlyRemaining,
                                           status.value.dailyRemaining))]

\* getRandomDelay that counts in seconds
getRandomDelay_Seconds(u) ==
    LET minDelay == 3
        maxDelay == 8
    IN  ((u * (maxDelay - minDelay + 1)) \div RandomResolution) + minDelay

\* getRandomDelay() when Math.random() returns u / RandomResolution
getRandomDelay(u) ==
    LET minDelay == 3000
        maxDelay == 8000
    IN  ((u * (maxDelay - minDelay + 1)) \div RandomResolution) + minDelay

----------------------------------------------------------------------------
(* The clock *)

HoursPerDay == ONE_DAY_MS \div ONE_HOUR_MS

\* the instants the clock visits: each visited hour, and the millisecond before it
ClockGrid ==
    { k * ONE_HOUR_MS - e :
        k \in (0 .. NearHours) \cup (HoursPerDay .. HoursPerDay + NearHours),
        e \in {0, 1} } \cap Nat

\* time passes: Date.now() never goes back
Tick ==
    /\ \E t \in ClockGrid : t > now /\ now' = t
    /\ UNCHANGED <<state, config, env, log, ret, req, http>>

----------------------------------------------------------------------------
(* The limiter module called directly, by any caller *)

\* what an outside caller gets when the getConfig() inside the call throws
Thrown(op) == [op |-> op, threw |-> "Missing required Gmail credentials"]

CallCanSendEmail ==
    /\ IF getConfigThrows
       THEN /\ state' = cleanupRecords(state, now)
            /\ ret' = Thrown("canSendEmail")
            /\ config' = config
       ELSE LET r == canSendEmail(state, now)
         IN  /\ state' = r.state
             /\ ret' = [op |-> "canSendEmail", value |-> r.value]
             /\ config' = getConfig
    /\ UNCHANGED <<now, env, log, req, http>>

\* recordEmailSent()
RecordEmailSentCall ==
    /\ state' = recordEmailSent(state, now)
    /\ log' = Append(log, [timestamp |-> now, by |-> 0])
    /\ ret' = [op |-> "recordEmailSent"]
    /\ UNCHANGED <<now, config, env, req, http>>

CallRecordEmailSent ==
    /\ Len(log) < MaxRecords
    /\ RecordEmailSentCall

CallGetRateLimitStatus ==
    /\ IF getConfigThrows
       THEN /\ state' = cleanupRecords(state, now)
            /\ ret' = Thrown("getRateLimitStatus")
            /\ config' = config
       ELSE LET r == getRateLimitStatus(state, now)
            IN  /\ state' = r.state
                /\ ret' = [op |-> "getRateLimitStatus", value |-> r.value]
                /\ config' = getConfig
    /\ UNCHANGED <<now, env, log, req, http>>

CallGetRandomDelay ==
    /\ \E u \in 0 .. RandomResolution - 1 :
        ret' = [op |-> "getRandomDelay", delay |-> getRandomDelay(u)]
    /\ UNCHANGED <<now, state, config, env, log, req, http>>

CallGetMaxBatchSize ==
    /\ \E requested \in -1 .. MaxRequested :
        IF getConfigThrows
        THEN /\ state' = cleanupRecords(state, now)
             /\ ret' = Thrown("getMaxBatchSize")
             /\ config' = config
        ELSE LET r == getMaxBatchSize(state, now, requested)
             IN  /\ state' = r.state
                 /\ ret' = [op |-> "getMaxBatchSize", requested |-> requested,
                            value |-> r.value]
                 /\ config' = getConfig
    /\ UNCHANGED <<now, env, log, req, http>>

----------------------------------------------------------------------------
(* server.ts: the tool handlers.  A request slot runs one tool invocation. *)
(* gmail.ts sendEmail() awaits the Gmail API, so a send is dispatched in   *)
(* one action and its outcome arrives in a later one (SendComplete).       *)

Requests == 1 .. MaxRequests

NoStatus == [allowed |-> FALSE, reason |-> "none", hourlyRemaining |-> 0, dailyRemaining |-> 0]

IdleRequest == [tool |-> "none", pc |-> "idle", n |-> 0, rateStatus |-> NoStatus,
                results |-> << >>, wakeAt |-> 0, response |-> [kind |-> "none"]]

\* requests are numbered in their order of arrival
Arrives(h) ==
    /\ req[h].pc = "idle"
    /\ \A g \in Requests : g < h => req[g].pc # "idle"

\* results.filter(r => r.success).length
successCount(results) == Cardinality({i \in DOMAIN results : results[i]})

\* the response when canSendEmail() denied: error and getRateLimitStatus()
DeniedResponse(rateStatus, rate_limit) ==
    [kind |-> "denied", success |-> FALSE, error |-> rateStatus.reason,
     rate_limit |-> rate_limit]

\* the response after the loop over the recipients
SentResponse(results, rate_limit) ==
    [kind |-> "sent", success |-> successCount(results) > 0,
     successCount |-> successCount(results), total |-> Len(results),
     rate_limit |-> rate_limit]

\* the handler leaves its loop in limiter state st: getRateLimitStatus(), return
Finish(h, st, results) ==
    LET s == getRateLimitStatus(st, now)
    IN  /\ state' = s.state
        /\ req' = [req EXCEPT ![h].pc = "done",
                              ![h].results = results,
                              ![h].wakeAt = 0,
                              ![h].response = SentResponse(results, s.value)]

\* a handler that goes on to its sends although the limit is reached
Deny_Dispatches(h, tool, n, r) ==
    /\ state' = r.state
    /\ req' = [req EXCEPT ![h] = [IdleRequest EXCEPT
                    !.tool = tool, !.pc = "sending", !.n = n, !.rateStatus = r.value]]

\* the handler found the limit reached at its start
Deny(h, tool, n, r) ==
    LET s == getRateLimitStatus(r.state, now)
    IN  /\ state' = s.state
        /\ req' = [req EXCEPT ![h] = [IdleRequest EXCEPT
                        !.tool = tool, !.pc = "done", !.n = n,
                        !.rateStatus = r.value,
                        !.response = DeniedResponse(r.value, s.value)]]

\* the handler calls sendEmail() for its next recipient and awaits it
Dispatch(h, tool, n, r) ==
    /\ state' = r.state
    /\ req' = [req EXCEPT ![h] = [IdleRequest EXCEPT
                    !.tool = tool, !.pc = "sending", !.n = n, !.rateStatus = r.value]]

\* getConfig() threw inside canSendEmail(), after its cleanupRecords(): the catch
\* block of the handler returns the message as the response
Caught(h, tool, n) ==
    /\ state' = cleanupRecords(state, now)
    /\ req' = [req EXCEPT ![h] = [IdleRequest EXCEPT
                    !.tool = tool, !.pc = "done", !.n = n,
                    !.response = [kind |-> "error", success |-> FALSE,
                                  error |-> "Missing required Gmail credentials"]]]

\* getConfig() threw inside a handler that has no try block: the exception leaves
\* the handler, which returns no result
Escapes(h, tool) ==
    /\ state' = cleanupRecords(state, now)
    /\ req' = [req EXCEPT ![h] = [IdleRequest EXCEPT !.tool = tool, !.pc = "threw"]]

\* send_email with n addresses in `to`, up to the first await
InvokeSendEmail(h, n) ==
    /\ Arrives(h)
    /\ IF getConfigThrows
       THEN Caught(h, "send_email", n)
       ELSE LET r == canSendEmail(state, now)
            IN  IF ~r.value.allowed
                THEN Deny(h, "send_email", n, r)
                ELSE IF n = 0
                THEN LET s == getRateLimitStatus(r.state, now)
                     IN  /\ state' = s.state
                         /\ req' = [req EXCEPT ![h] = [IdleRequest EXCEPT
                                         !.tool = "send_email", !.pc = "done",
                                         !.rateStatus = r.value,
                                         !.response = SentResponse(<< >>, s.value)]]
                ELSE Dispatch(h, "send_email", n, r)
    /\ UNCHANGED <<now, config, env, log, ret, http>>

\* send_bulk_emails that starts its loop also when there are too many recipients
InvokeSendBulkEmails_Unchecked(h, n) ==
    /\ Arrives(h)
    /\ LET r == canSendEmail(state, now)
           s1 == getRateLimitStatus(r.state, now)
           s2 == getRateLimitStatus(s1.state, now)
           maxToSend == Min(n, Min(s1.value.hourlyRemaining, s2.value.dailyRemaining))
       IN  IF ~r.value.allowed
           THEN Deny(h, "send_bulk_emails", n, r)
           ELSE IF maxToSend < n
           THEN Dispatch(h, "send_bulk_emails", n, [r EXCEPT !.state = s2.state])
           ELSE IF n = 0
           THEN LET s3 == getRateLimitStatus(s2.state, now)
                IN  /\ state' = s3.state
                    /\ req' = [req EXCEPT ![h] = [IdleRequest EXCEPT
                                    !.tool = "send_bulk_emails", !.pc = "done",
                                    !.rateStatus = r.value,
                                    !.response = SentResponse(<< >>, s3.value)]]
           ELSE Dispatch(h, "send_bulk_emails", n, [r EXCEPT !.state = s2.state])
    /\ UNCHANGED <<now, config, env, log, ret, http>>

\* send_bulk_emails with n recipients, up to the first await
InvokeSendBulkEmails(h, n) ==
    /\ Arrives(h)
    /\ IF getConfigThrows
       THEN Caught(h, "send_bulk_emails", n)
       ELSE LET r == canSendEmail(state, now)
                s1 == getRateLimitStatus(r.state, now)
                s2 == getRateLimitStatus(s1.state, now)
                maxToSend == Min(n, Min(s1.value.hourlyRemaining, s2.value.dailyRemaining))
            IN  IF ~r.value.allowed
                THEN Deny(h, "send_bulk_emails", n, r)
                ELSE IF maxToSend < n
                THEN LET s3 == getRateLimitStatus(s2.state, now)
                     IN  /\ state' = s3.state
                         /\ req' = [req EXCEPT ![h] = [IdleRequest EXCEPT
                                         !.tool = "send_bulk_emails", !.pc = "done", !.n = n,
                                         !.rateStatus = r.value,
                                         !.response = [kind |-> "too_many", success |-> FALSE,
                                                       maxToSend |-> maxToSend,
                                                       rate_limit |-> s3.value]]]
                ELSE IF n = 0
                THEN LET s3 == getRateLimitStatus(s2.state, now)
                     IN  /\ state' = s3.state
                         /\ req' = [req EXCEPT ![h] = [IdleRequest EXCEPT
                                         !.tool = "send_bulk_emails", !.pc = "done",
                                         !.rateStatus = r.value,
                                         !.response = SentResponse(<< >>, s3.value)]]
                ELSE Dispatch(h, "send_bulk_emails", n, [r EXCEPT !.state = s2.state])
    /\ UNCHANGED <<now, config, env, log, ret, http>>

\* compose_and_send that sends the email itself when the limits allow it
InvokeComposeAndSend_Sends(h) ==
    /\ Arrives(h)
    /\ LET r == canSendEmail(state, now)
       IN  IF ~r.value.allowed
           THEN Deny(h, "compose_and_send", 1, r)
           ELSE Dispatch(h, "compose_and_send", 1, r)
    /\ UNCHANGED <<now, config, env, log, ret, http>>

\* compose_and_send: admission check, then instructions for the assistant; it sends nothing
InvokeComposeAndSend(h) ==
    /\ Arrives(h)
    /\ IF getConfigThrows
       THEN Caught(h, "compose_and_send", 1)
       ELSE LET r == canSendEmail(state, now)
            IN  IF ~r.value.allowed
                THEN Deny(h, "compose_and_send", 1, r)
                ELSE LET s == getRateLimitStatus(r.state, now)
                     IN  /\ state' = s.state
                         /\ req' = [req EXCEPT ![h] = [IdleRequest EXCEPT
                                         !.tool = "compose_and_send", !.pc = "done", !.n = 1,
                                         !.rateStatus = r.value,
                                         !.response = [kind |-> "compose", success |-> TRUE,
                                                       rate_limit |-> s.value]]]
    /\ UNCHANGED <<now, config, env, log, ret, http>>

\* check_email_status: getRateLimitStatus() and then canSendEmail(), each with its own
\* Date.now(); the second read falls in the same millisecond or in the next
InvokeCheckEmailStatus(h) ==
    /\ Arrives(h)
    /\ \E t \in {u \in ClockGrid : u = now \/ u = now + 1} :
        IF getConfigThrows
        THEN now' = now /\ Escapes(h, "check_email_status")
        ELSE
        LET status == getRateLimitStatus(state, now)
            canSend == canSendEmail(status.state, t)
        IN  /\ now' = t
            /\ state' = canSend.state
            /\ req' = [req EXCEPT ![h] = [IdleRequest EXCEPT
                            !.tool = "check_email_status", !.pc = "done",
                            !.rateStatus = canSend.value,
                            !.response = [kind |-> "status",
                                          can_send |-> canSend.value.allowed,
                                          rate_limit |-> status.value]]]
    /\ UNCHANGED <<config, env, log, ret, http>>

\* the send is recorded whether it succeeded or not
RecordsSend_Always(success) == TRUE

\* `if (result.success) { recordEmailSent(); }`: is the send recorded?
RecordsSend(success) == success

\* after a send, is there a sleep(getRandomDelay()) before the loop goes on?
\* send_email: if (toAddresses.length > 1); send_bulk_emails: if (i < recipients.length - 1)
SleepsAfter(tool, i, n) ==
    IF tool = "send_email" THEN n > 1 ELSE i < n - 1

\* a loop that a failed send ends: the handler answers without the recipients left
SendComplete_AbortsOnFailure(h, success) ==
    /\ req[h].pc = "sending"
    /\ LET recorded == RecordsSend(success)
           st == IF recorded THEN recordEmailSent(state, now) ELSE state
           i == Len(req[h].results)
           results == Append(req[h].results, success)
       IN  /\ log' = IF recorded THEN Append(log, [timestamp |-> now, by |-> h]) ELSE log
           /\ IF success /\ SleepsAfter(req[h].tool, i, req[h].n)
              THEN /\ state' = st
                   /\ \E u \in 0 .. RandomResolution - 1 :
                        req' = [req EXCEPT ![h].pc = "sleeping",
                                           ![h].results = results,
                                           ![h].wakeAt = now + getRandomDelay(u)]
              ELSE Finish(h, st, results)
    /\ UNCHANGED <<now, config, env, ret, http>>

\* sendEmail() returns to the handler with result.success = success
SendComplete(h, success) ==
    /\ req[h].pc = "sending"
    /\ LET recorded == RecordsSend(success)
           st == IF recorded THEN recordEmailSent(state, now) ELSE state
           i == Len(req[h].results)
           results == Append(req[h].results, success)
       IN  /\ log' = IF recorded THEN Append(log, [timestamp |-> now, by |-> h]) ELSE log
           /\ IF SleepsAfter(req[h].tool, i, req[h].n)
              THEN /\ state' = st
                   /\ \E u \in 0 .. RandomResolution - 1 :
                        req' = [req EXCEPT ![h].pc = "sleeping",
                                           ![h].results = results,
                                           ![h].wakeAt = now + getRandomDelay(u)]
              ELSE Finish(h, st, results)
    /\ UNCHANGED <<now, config, env, ret, http>>

\* a sleep that may end before its delay has elapsed
Wake_Early(h) ==
    /\ req[h].pc = "sleeping"
    /\ IF Len(req[h].results) < req[h].n
       THEN /\ req' = [req EXCEPT ![h].pc = "sending", ![h].wakeAt = 0]
            /\ state' = state
       ELSE Finish(h, state, req[h].results)
    /\ UNCHANGED <<now, config, env, log, ret, http>>

\* the timer of the sleep between two sends fires: next recipient, or the end of the loop
Wake(h) ==
    /\ req[h].pc = "sleeping"
    /\ now >= req[h].wakeAt
    /\ IF Len(req[h].results) < req[h].n
       THEN /\ req' = [req EXCEPT ![h].pc = "sending", ![h].wakeAt = 0]
            /\ state' = state
       ELSE Finish(h, state, req[h].results)
    /\ UNCHANGED <<now, config, env, log, ret, http>>

----------------------------------------------------------------------------
(* The standalone HTTP/SSE server (src/unnamed/part_003): two counters that *)
(* two setInterval timers reset, checked before and incremented after the   *)
(* awaited Gmail call.                                                       *)

MAX_PER_HOUR == 20
MAX_PER_DAY == 50

\* no tools/call answered yet
NoAnswer == [kind |-> "none"]

\* history: the successful sends counted over one span of time [start, start + length),
\* up to one more than the limit that the span is watched for; the count is dropped
\* when the clock leaves the span
NoSpan == [start |-> 0, length |-> 0, limit |-> 0, sent |-> 0]

\* the spans watched: an hour or a day from any instant of the first hours of the clock
Spans ==
    {[start |-> t, length |-> w[1], limit |-> w[2], sent |-> 0] :
        t \in {u \in ClockGrid : u <= NearHours * ONE_HOUR_MS},
        w \in {<<ONE_HOUR_MS, MAX_PER_HOUR>>, <<ONE_DAY_MS, MAX_PER_DAY>>}}

\* the span after a successful send at time t
CountInSpan(span, t) ==
    IF span.start <= t /\ t < span.start + span.length /\ span.sent <= span.limit
    THEN [span EXCEPT !.sent = @ + 1]
    ELSE span

\* history of the hourly rejections: not kept, or the time of the last one if any
Unwatched == [watched |-> FALSE, at |-> << >>]

Watched == [watched |-> TRUE, at |-> << >>]

\* the history after a send_email request was rejected for the hourly limit at time t
Rejected(rejections, t) ==
    IF rejections.watched THEN [rejections EXCEPT !.at = <<t>>] ELSE rejections

Posts == 1 .. MaxPosts

\* a POST /message request: its sessionId parameter (0: none, or no session's id),
\* the sessions onto whose stream its response was pushed, and the status codes of
\* the HTTP responses written for it
IdlePost == [pc |-> "idle", sessionId |-> 0, pushed |-> {}, responses |-> << >>]

\* the server after module load: counters at 0, both timers armed, nothing in flight
HttpStart ==
    [emailsSentThisHour |-> 0,
     emailsSentToday |-> 0,
     sending |-> 0,          \* sendEmail calls awaiting gmail.users.messages.send
     hourlyDue |-> FALSE,    \* the hourly setInterval callback is due and has not run
     dailyDue |-> FALSE,     \* the daily setInterval callback is due and has not run
     answer |-> NoAnswer,    \* the result of the last tools/call
     span |-> NoSpan,        \* history: successful sends within a watched span
     lastHourlyReset |-> 0,  \* history: when emailsSentThisHour was last set to 0
     sentSinceHourlyReset |-> 0,  \* history: successful sends since then
     rejections |-> Unwatched,    \* history: the time of the last hourly rejection
     nextSession |-> 0,      \* history: the number of sessions opened on /sse
     sseConnections |-> {},  \* the keys of the map; the stream of key S is that of session S
     closed |-> {},          \* history: the sessions whose request has closed
     posts |-> [p \in Posts |-> IdlePost]]   \* the POST /message requests

\* does sendEmail get past its two limit checks, to the Gmail call?
ReachesGmail(h) ==
    /\ h.emailsSentThisHour < MAX_PER_HOUR
    /\ h.emailsSentToday < MAX_PER_DAY

\* the server h after sendEmail has run up to its await at time t
SendEmailStarts(h, t) ==
    IF h.emailsSentThisHour >= MAX_PER_HOUR
    THEN [h EXCEPT !.answer = [kind |-> "send_email", success |-> FALSE,
                               error |-> "Hourly rate limit reached"],
                   !.rejections = Rejected(@, t)]
    ELSE IF h.emailsSentToday >= MAX_PER_DAY
    THEN [h EXCEPT !.answer = [kind |-> "send_email", success |-> FALSE,
                               error |-> "Daily rate limit reached"]]
    ELSE [h EXCEPT !.sending = @ + 1]

\* tools/call send_email, up to the await of the Gmail API
HttpSendEmail ==
    /\ ReachesGmail(http) => http.sending < MaxInFlight
    /\ http' = SendEmailStarts(http, now)
    /\ UNCHANGED <<now, state, config, env, log, ret, req>>

\* a sendEmail that counts the email before it knows whether Gmail accepted it
HttpSendComplete_CountsFailures(sent) ==
    /\ http.sending > 0
    /\ http' = [http EXCEPT !.sending = @ - 1,
                            !.emailsSentThisHour = @ + 1,
                            !.emailsSentToday = @ + 1,
                            !.answer = IF sent
                                       THEN [kind |-> "send_email", success |-> TRUE]
                                       ELSE [kind |-> "send_email", success |-> FALSE,
                                             error |-> "Gmail API error"],
                            !.span = IF sent THEN CountInSpan(@, now) ELSE @,
                            !.sentSinceHourlyReset = IF sent THEN @ + 1 ELSE @]
    /\ UNCHANGED <<now, state, config, env, log, ret, req>>

\* the server h after gmail.users.messages.send has returned (sent) or thrown (not
\* sent) at time t and sendEmail has run to its end
SendEmailReturns(h, sent, t) ==
    IF sent
    THEN [h EXCEPT !.sending = @ - 1,
                   !.emailsSentThisHour = @ + 1,
                   !.emailsSentToday = @ + 1,
                   !.answer = [kind |-> "send_email", success |-> TRUE],
                   !.span = CountInSpan(@, t),
                   !.sentSinceHourlyReset = @ + 1]
    ELSE [h EXCEPT !.sending = @ - 1,
                   !.answer = [kind |-> "send_email", success |-> FALSE,
                               error |-> "Gmail API error"]]

\* gmail.users.messages.send returns (sent) or throws (not sent)
HttpSendComplete(sent) ==
    /\ http.sending > 0
    /\ http' = SendEmailReturns(http, sent, now)
    /\ UNCHANGED <<now, state, config, env, log, ret, req>>

\* tools/call check_status
HttpCheckStatus ==
    /\ http' = [http EXCEPT !.answer =
                    [kind |-> "check_status",
                     emailsSentThisHour |-> http.emailsSentThisHour,
                     emailsSentToday |-> http.emailsSentToday,
                     remainingThisHour |-> MAX_PER_HOUR - http.emailsSentThisHour,
                     remainingToday |-> MAX_PER_DAY - http.emailsSentToday]]
    /\ UNCHANGED <<now, state, config, env, log, ret, req>>

\* an hourly timer whose callback leaves the counter as it is
HttpResetHourly_KeepsCount ==
    /\ http.hourlyDue
    /\ http' = [http EXCEPT !.hourlyDue = FALSE,
                            !.lastHourlyReset = now,
                            !.sentSinceHourlyReset = 0]
    /\ UNCHANGED <<now, state, config, env, log, ret, req>>

\* setInterval(() => { emailsSentThisHour = 0; }, 60 * 60 * 1000)
HttpResetHourly ==
    /\ http.hourlyDue
    /\ http' = [http EXCEPT !.emailsSentThisHour = 0, !.hourlyDue = FALSE,
                            !.lastHourlyReset = now,
                            !.sentSinceHourlyReset = 0]
    /\ UNCHANGED <<now, state, config, env, log, ret, req>>

\* setInterval(() => { emailsSentToday = 0; }, 24 * 60 * 60 * 1000)
HttpResetDaily ==
    /\ http.dailyDue
    /\ http' = [http EXCEPT !.emailsSentToday = 0, !.dailyDue = FALSE]
    /\ UNCHANGED <<now, state, config, env, log, ret, req>>

\* is there a multiple of period strictly between the times a and b?
IntervalFiresBetween(a, b, period) ==
    \E k \in 1 .. (b \div period) : a < k * period /\ k * period < b

\* the last multiple of period before the time b
LastIntervalBefore(b, period) == ((b - 1) \div period) * period

\* time passes once the due timer callbacks have run.  A timer that came due on the
\* way has run by the time the clock is read again; one that is due at the very
\* instant reached runs at that instant, before or after the requests of that instant
HttpTick ==
    /\ ~http.hourlyDue
    /\ ~http.dailyDue
    /\ \E t \in ClockGrid :
        /\ t > now
        /\ now' = t
        /\ http' = [http EXCEPT
                !.emailsSentThisHour =
                    IF IntervalFiresBetween(now, t, ONE_HOUR_MS) THEN 0 ELSE @,
                !.emailsSentToday =
                    IF IntervalFiresBetween(now, t, ONE_DAY_MS) THEN 0 ELSE @,
                !.hourlyDue = (t % ONE_HOUR_MS = 0),
                !.dailyDue = (t % ONE_DAY_MS = 0),
                !.span = IF t >= @.start + @.length THEN NoSpan ELSE @,
                !.lastHourlyReset =
                    IF IntervalFiresBetween(now, t, ONE_HOUR_MS)
                    THEN LastIntervalBefore(t, ONE_HOUR_MS)
                    ELSE @,
                !.sentSinceHourlyReset =
                    IF IntervalFiresBetween(now, t, ONE_HOUR_MS) THEN 0 ELSE @]
    /\ UNCHANGED <<state, config, env, log, ret, req>>

\* the HTTP server process at its start: the limiter module of the MCP server is not
\* part of it
HttpInit ==
    /\ now = 0
    /\ state = EmptyState
    /\ config = NoConfig
    /\ env = [credentials |-> TRUE, MAX_EMAILS_PER_HOUR |-> << >>,
              MAX_EMAILS_PER_DAY |-> << >>]
    /\ log = << >>
    /\ ret = [op |-> "none"]
    /\ req = [h \in Requests |-> IdleRequest]
    /\ http = [HttpStart EXCEPT !.rejections = Watched]

\* the HTTP server under any interleaving of requests, Gmail answers and timers
HttpNext ==
    \/ HttpSendEmail
    \/ \E sent \in BOOLEAN : HttpSendComplete(sent)
    \/ HttpCheckStatus
    \/ HttpResetHourly
    \/ HttpResetDaily
    \/ HttpTick

HttpSpec == HttpInit /\ [][HttpNext]_vars

\* the HTTP server with the sends of one span of an hour or a day counted
HttpSpanInit ==
    /\ now = 0
    /\ state = EmptyState
    /\ config = NoConfig
    /\ env = [credentials |-> TRUE, MAX_EMAILS_PER_HOUR |-> << >>,
              MAX_EMAILS_PER_DAY |-> << >>]
    /\ log = << >>
    /\ ret = [op |-> "none"]
    /\ req = [h \in Requests |-> IdleRequest]
    /\ \E span \in Spans : http = [HttpStart EXCEPT !.span = span]

HttpSpanSpec == HttpSpanInit /\ [][HttpNext]_vars

----------------------------------------------------------------------------
(* The standalone HTTP/SSE server: the sessions of /sse and the requests of  *)
(* /message.  Session ids are made of the time and a random string; the      *)
(* model numbers the sessions in their order of opening.                     *)

\* GET /sse: a new session is registered under its id
SseOpen ==
    /\ http.nextSession < MaxSessions
    /\ http' = [http EXCEPT !.nextSession = @ + 1,
                            !.sseConnections = @ \cup {http.nextSession + 1}]
    /\ UNCHANGED <<now, state, config, env, log, ret, req>>

\* a close event that leaves the session in the map
SseClose_KeepsEntry(S) ==
    /\ S \in 1 .. http.nextSession
    /\ S \notin http.closed
    /\ http' = [http EXCEPT !.closed = @ \cup {S}]
    /\ UNCHANGED <<now, state, config, env, log, ret, req>>

\* req.on('close') of the GET /sse request of session S
SseClose(S) ==
    /\ S \in 1 .. http.nextSession
    /\ S \notin http.closed
    /\ http' = [http EXCEPT !.sseConnections = @ \ {S},
                            !.closed = @ \cup {S}]
    /\ UNCHANGED <<now, state, config, env, log, ret, req>>

\* POST requests are numbered in their order of arrival
PostArrives(p) ==
    /\ http.posts[p].pc = "idle"
    /\ \A q \in Posts : q < p => http.posts[q].pc # "idle"

\* a response pushed onto the stream of the session without looking the session up
Respond_Unchecked(h, p, S) ==
    [h EXCEPT !.posts[p] = [pc |-> "done", sessionId |-> S,
                            pushed |-> IF S # 0 THEN {S} ELSE {},
                            responses |-> Append(h.posts[p].responses, 200)]]

\* the end of the try block of request p: the response is pushed onto the stream
\* registered under sessionId S, if any, and written as the HTTP response
Respond(h, p, S) ==
    [h EXCEPT !.posts[p] = [pc |-> "done", sessionId |-> S,
                            pushed |-> IF S # 0 /\ S \in h.sseConnections
                                       THEN {S} ELSE {},
                            responses |-> Append(h.posts[p].responses, 200)]]

\* POST /message with a method that awaits nothing (initialize, tools/list)
PostInitialize(p, S) ==
    /\ PostArrives(p)
    /\ S \in 0 .. http.nextSession
    /\ http' = Respond(http, p, S)
    /\ UNCHANGED <<now, state, config, env, log, ret, req>>

\* POST /message with a body that JSON.parse or the destructuring rejects: the catch
PostMalformed(p, S) ==
    /\ PostArrives(p)
    /\ S \in 0 .. http.nextSession
    /\ http' = [http EXCEPT !.posts[p] = [pc |-> "done", sessionId |-> S,
                                         pushed |-> {},
                                         responses |-> Append(@.responses, 400)]]
    /\ UNCHANGED <<now, state, config, env, log, ret, req>>

\* POST /message tools/call send_email, up to the await of the Gmail API; a
\* rejected sendEmail resumes the handler before any other event
PostSendEmail(p, S) ==
    /\ PostArrives(p)
    /\ S \in 0 .. http.nextSession
    /\ ReachesGmail(http) => http.sending < MaxInFlight
    /\ http' = IF ReachesGmail(http)
               THEN [SendEmailStarts(http, now) EXCEPT
                        !.posts[p] = [IdlePost EXCEPT !.pc = "awaiting",
                                                      !.sessionId = S]]
               ELSE Respond(SendEmailStarts(http, now), p, S)
    /\ UNCHANGED <<now, state, config, env, log, ret, req>>

\* the Gmail API answers request p: sendEmail returns and the handler responds
PostSendReturns(p, sent) ==
    /\ http.posts[p].pc = "awaiting"
    /\ http' = Respond(SendEmailReturns(http, sent, now), p, http.posts[p].sessionId)
    /\ UNCHANGED <<now, state, config, env, log, ret, req>>

\* POST /message tools/call verify_connection, up to the await of the Gmail API
PostVerifyConnection(p, S) ==
    /\ PostArrives(p)
    /\ S \in 0 .. http.nextSession
    /\ http' = [http EXCEPT !.posts[p] = [IdlePost EXCEPT !.pc = "verifying",
                                                          !.sessionId = S]]
    /\ UNCHANGED <<now, state, config, env, log, ret, req>>

\* the Gmail API answers the getProfile call of request p, or throws: verifyConnection
\* returns either way and the handler responds
PostVerifyReturns(p) ==
    /\ http.posts[p].pc = "verifying"
    /\ http' = Respond(http, p, http.posts[p].sessionId)
    /\ UNCHANGED <<now, state, config, env, log, ret, req>>

SseInit ==
    /\ now = 0
    /\ state = EmptyState
    /\ config = NoConfig
    /\ env = [credentials |-> TRUE, MAX_EMAILS_PER_HOUR |-> << >>,
              MAX_EMAILS_PER_DAY |-> << >>]
    /\ log = << >>
    /\ ret = [op |-> "none"]
    /\ req = [h \in Requests |-> IdleRequest]
    /\ http = HttpStart

\* the HTTP server under any interleaving of sessions, requests and Gmail answers
SseNext ==
    \/ SseOpen
    \/ \E S \in 1 .. MaxSessions : SseClose(S)
    \/ \E p \in Posts, S \in 0 .. MaxSessions : PostInitialize(p, S)
    \/ \E p \in Posts, S \in 0 .. MaxSessions : PostMalformed(p, S)
    \/ \E p \in Posts, S \in 0 .. MaxSessions : PostSendEmail(p, S)
    \/ \E p \in Posts, sent \in BOOLEAN : PostSendReturns(p, sent)
    \/ \E p \in Posts, S \in 0 .. MaxSessions : PostVerifyConnection(p, S)
    \/ \E p \in Posts : PostVerifyReturns(p)

SseSpec == SseInit /\ [][SseNext]_vars

----------------------------------------------------------------------------
(* Initial state: empty windows, no request yet, and the configuration that *)
(* validateConfig() loaded at startup from an environment with credentials  *)
(* and positive limits                                                      *)

Init ==
    /\ now = 0
    /\ state = EmptyState
    /\ \E e \in Envs :
        /\ e.credentials
        /\ e.MAX_EMAILS_PER_HOUR \in {Numeral(n) : n \in 1 .. MaxLimit}
        /\ e.MAX_EMAILS_PER_DAY \in {Numeral(n) : n \in 1 .. MaxLimit}
        /\ env = e
        /\ config = LoadConfig(e)
    /\ log = << >>
    /\ ret = [op |-> "none"]
    /\ req = [h \in Requests |-> IdleRequest]
    /\ http = HttpStart

\* the limiter module under any sequence of calls
LimiterNext ==
    \/ CallCanSendEmail
    \/ CallRecordEmailSent
    \/ CallGetRateLimitStatus
    \/ CallGetMaxBatchSize
    \/ CallGetRandomDelay
    \/ Tick

LimiterSpec == Init /\ [][LimiterNext]_vars

\* the MCP server under any interleaving of tool invocations
Next ==
    \/ \E h \in Requests, n \in 0 .. MaxRecipients : InvokeSendEmail(h, n)
    \/ \E h \in Requests, n \in 0 .. MaxRecipients : InvokeSendBulkEmails(h, n)
    \/ \E h \in Requests : InvokeComposeAndSend(h)
    \/ \E h \in Requests : InvokeCheckEmailStatus(h)
    \/ \E h \in Requests, success \in BOOLEAN : SendComplete(h, success)
    \/ \E h \in Requests : Wake(h)
    \/ Tick

Spec == Init /\ [][Next]_vars

\* recordEmailSent() in the first hours of the run, so that the clock of the model
\* reaches the expiry of every event
RecordEarly ==
    /\ now <= NearHours * ONE_HOUR_MS
    /\ CallRecordEmailSent

\* the limiter with a clock that keeps advancing and a caller that keeps asking
RecoveryNext ==
    \/ CallCanSendEmail
    \/ RecordEarly
    \/ Tick

RecoverySpec ==
    /\ Init
    /\ [][RecoveryNext]_vars
    /\ WF_vars(Tick)
    /\ WF_vars(CallCanSendEmail)

\* a process whose getConfig() has not been called yet, or has only thrown, in any
\* environment; Date.now() plays no part in getConfig() and is left alone
ConfigInit ==
    /\ now = 0
    /\ state = EmptyState
    /\ config = NoConfig
    /\ env \in Envs
    /\ log = << >>
    /\ ret = [op |-> "none"]
    /\ req = [h \in Requests |-> IdleRequest]
    /\ http = HttpStart

\* the limiter module under any sequence of calls and changes of the environment
ConfigNext ==
    \/ CallCanSendEmail
    \/ CallRecordEmailSent
    \/ CallGetRateLimitStatus
    \/ CallGetMaxBatchSize
    \/ SetEnv

ConfigSpec == ConfigInit /\ [][ConfigNext]_vars

\* the limits of the two worked examples: 2 per hour and 5 per day, 5 and 50
ScenarioEnvs ==
    {[credentials |-> TRUE, MAX_EMAILS_PER_HOUR |-> <<"2">>, MAX_EMAILS_PER_DAY |-> <<"5">>],
     [credentials |-> TRUE, MAX_EMAILS_PER_HOUR |-> <<"5">>,
      MAX_EMAILS_PER_DAY |-> <<"5", "0">>]}

ScenarioInit ==
    /\ now = 0
    /\ state = EmptyState
    /\ \E e \in ScenarioEnvs : env = e /\ config = LoadConfig(e)
    /\ log = << >>
    /\ ret = [op |-> "none"]
    /\ req = [h \in Requests |-> IdleRequest]
    /\ http = HttpStart

\* recordEmailSent(), as often as fills the hourly limit
RecordUpToHourlyLimit ==
    /\ Len(log) < config.rateLimit.maxPerHour
    /\ RecordEmailSentCall

SixtyOneMinutes == 61 * 60 * 1000

\* time passes, also to 61 minutes after process start
ScenarioTick ==
    /\ \E t \in ClockGrid \cup {SixtyOneMinutes} : t > now /\ now' = t
    /\ UNCHANGED <<state, config, env, log, ret, req, http>>

\* the limiter module in the worked examples
ScenarioNext ==
    \/ CallCanSendEmail
    \/ RecordUpToHourlyLimit
    \/ CallGetRateLimitStatus
    \/ ScenarioTick

ScenarioSpec == ScenarioInit /\ [][ScenarioNext]_vars

\* the server after main() when validateConfig() returned false: a credential is
\* missing, nothing is cached, and the server runs all the same
InvalidConfigInit ==
    /\ now = 0
    /\ state = EmptyState
    /\ config = NoConfig
    /\ \E e \in Envs : ~e.credentials /\ env = e
    /\ log = << >>
    /\ ret = [op |-> "none"]
    /\ req = [h \in Requests |-> IdleRequest]
    /\ http = HttpStart

\* the tool invocations of the server started with invalid configuration
InvalidConfigNext ==
    \/ \E h \in Requests, n \in 0 .. MaxRecipients : InvokeSendEmail(h, n)
    \/ \E h \in Requests, n \in 0 .. MaxRecipients : InvokeSendBulkEmails(h, n)
    \/ \E h \in Requests : InvokeComposeAndSend(h)
    \/ \E h \in Requests : InvokeCheckEmailStatus(h)
    \/ Tick

InvalidConfigSpec == InvalidConfigInit /\ [][InvalidConfigNext]_vars

----------------------------------------------------------------------------
(* A caller that sizes a batch with getMaxBatchSize() and then records as    *)
(* many sends as it was granted; a request slot holds the caller's locals.   *)

NoBatchYet == \A g \in Requests : req[g].pc = "idle"

\* recordEmailSent() by any caller, before the batch is sized
RecordBeforeBatch ==
    /\ NoBatchYet
    /\ CallRecordEmailSent

\* const k = getMaxBatchSize(requested), requested >= 0
BatchAsk(h) ==
    /\ Arrives(h)
    /\ NoBatchYet
    /\ \E requested \in 0 .. MaxRequested :
        LET r == getMaxBatchSize(state, now, requested)
        IN  /\ state' = r.state
            /\ ret' = [op |-> "getMaxBatchSize", requested |-> requested,
                       value |-> r.value]
            /\ req' = [req EXCEPT ![h] = [IdleRequest EXCEPT
                            !.tool = "batch",
                            !.pc = IF r.value = 0 THEN "done" ELSE "recording",
                            !.n = r.value]]
    /\ config' = getConfig
    /\ UNCHANGED <<now, env, log, http>>

\* one of the k recordEmailSent() calls of the batch
BatchRecord(h) ==
    /\ req[h].tool = "batch"
    /\ req[h].pc = "recording"
    /\ state' = recordEmailSent(state, now)
    /\ log' = Append(log, [timestamp |-> now, by |-> h])
    /\ ret' = [op |-> "recordEmailSent"]
    /\ req' = [req EXCEPT ![h].results = Append(@, TRUE),
                          ![h].pc = IF Len(req[h].results) + 1 = req[h].n
                                    THEN "done" ELSE "recording"]
    /\ UNCHANGED <<now, config, env, http>>

\* the limiter with one batch caller, and no other writer once the batch is sized
BatchNext ==
    \/ RecordBeforeBatch
    \/ \E h \in Requests : BatchAsk(h)
    \/ \E h \in Requests : BatchRecord(h)
    \/ CallCanSendEmail
    \/ CallGetRateLimitStatus
    \/ Tick

BatchSpec == Init /\ [][BatchNext]_vars

----------------------------------------------------------------------------
(* Properties *)

\* the number of events of a window that have not expired at time t
Unexpired(records, t, window) ==
    Cardinality({i \in DOMAIN records : t - records[i].timestamp < window})

\* the number of recorded events that a read at time t falls before the expiry of
LoggedWithin(t, window) ==
    Cardinality({i \in DOMAIN log : t < log[i].timestamp + window})

\* the events of a window that have not expired at time t, in their order
RECURSIVE KeepUnexpired(_, _, _)
KeepUnexpired(records, t, window) ==
    IF records = << >>
    THEN << >>
    ELSE IF t - Head(records).timestamp >= window
    THEN KeepUnexpired(Tail(records), t, window)
    ELSE <<Head(records)>> \o KeepUnexpired(Tail(records), t, window)

\* the number of recordEmailSent calls made by the handler of request h
RecordedBy(h) == Cardinality({i \in DOMAIN log : log[i].by = h})

\* what getRateLimitStatus would report in the current state
ReportedCounts ==
    LET v == getRateLimitStatus(state, now).value
    IN  <<v.hourlyCount, v.dailyCount>>

\* C1: under any interleaving of tool invocations and any advance of the clock, the
\* unexpired events of the hourly window never outnumber maxPerHour and those of the
\* daily window never outnumber maxPerDay.
C1_CountsWithinLimits ==
    /\ Unexpired(state.hourlyRecords, now, ONE_HOUR_MS) <= config.rateLimit.maxPerHour
    /\ Unexpired(state.dailyRecords, now, ONE_DAY_MS) <= config.rateLimit.maxPerDay

\* C2: canSendEmail returns allowed = true exactly when the unexpired hourly count is
\* below maxPerHour and the unexpired daily count is below maxPerDay, and its result
\* has a reason exactly when allowed is false.
C2_AllowedIffBelowLimits ==
    [][CallCanSendEmail =>
        LET v == ret'.value
            hourlyCount == Unexpired(state.hourlyRecords, now, ONE_HOUR_MS)
            dailyCount == Unexpired(state.dailyRecords, now, ONE_DAY_MS)
        IN  /\ v.allowed <=> (/\ hourlyCount < config.rateLimit.maxPerHour
                              /\ dailyCount < config.rateLimit.maxPerDay)
            /\ ("reason" \in DOMAIN v) <=> ~v.allowed]_vars

\* C2 witness: canSendEmail has denied for the daily limit while the hourly window has room
C2_Witness ==
    /\ ret.op = "canSendEmail"
    /\ ~ret.value.allowed
    /\ ret.value.reason = "Daily limit reached"
    /\ ret.value.hourlyRemaining > 0

\* C3: when both limits are exhausted canSendEmail reports the hourly reason; it reports
\* the daily reason only when the hourly window is not exhausted and the daily one is.
C3_HourlyReasonFirst ==
    [][CallCanSendEmail =>
        LET v == ret'.value
            hourlyFull == Unexpired(state.hourlyRecords, now, ONE_HOUR_MS)
                            >= config.rateLimit.maxPerHour
            dailyFull == Unexpired(state.dailyRecords, now, ONE_DAY_MS)
                            >= config.rateLimit.maxPerDay
        IN  /\ (hourlyFull /\ dailyFull) =>
                    (~v.allowed /\ v.reason = "Hourly limit reached")
            /\ (~v.allowed /\ v.reason = "Daily limit reached") =>
                    (~hourlyFull /\ dailyFull)]_vars

\* C3 witness: canSendEmail has answered with the hourly reason with both windows full
C3_Witness ==
    /\ ret.op = "canSendEmail"
    /\ ~ret.value.allowed
    /\ ret.value.reason = "Hourly limit reached"
    /\ ret.value.dailyRemaining = 0
    /\ Unexpired(state.hourlyRecords, now, ONE_HOUR_MS) >= config.rateLimit.maxPerHour
    /\ Unexpired(state.dailyRecords, now, ONE_DAY_MS) >= config.rateLimit.maxPerDay

\* C4: an event recorded at T is counted in the hourly count by every read before
\* T + 1 hour and by none from T + 1 hour on, and in the daily count by every read before
\* T + 24 hours and by none from then on: every read reports exactly the recorded
\* events that have not expired, whatever still sits in the arrays.
C4_CountsAreTheUnexpiredEvents ==
    [][/\ CallGetRateLimitStatus =>
            /\ ret'.value.hourlyCount = LoggedWithin(now, ONE_HOUR_MS)
            /\ ret'.value.dailyCount = LoggedWithin(now, ONE_DAY_MS)
       /\ CallCanSendEmail =>
            /\ ret'.value.hourlyRemaining =
                    Max(0, config.rateLimit.maxPerHour - LoggedWithin(now, ONE_HOUR_MS))
            /\ ret'.value.dailyRemaining =
                    Max(0, config.rateLimit.maxPerDay - LoggedWithin(now, ONE_DAY_MS))
      ]_vars

\* C4 witness: a read at exactly T + 1 hour of the newest event has left it out of the
\* hourly count and kept it in the daily count, an older event having left both
C4_Witness ==
    /\ ret.op = "getRateLimitStatus"
    /\ Len(log) = 2
    /\ now = log[2].timestamp + ONE_HOUR_MS
    /\ now >= log[1].timestamp + ONE_DAY_MS
    /\ ret.value.hourlyCount = 0
    /\ ret.value.dailyCount = 1
    /\ state.dailyRecords = <<[timestamp |-> log[2].timestamp]>>

\* C5: check-then-send-then-record is a critical section: two single-recipient send_email
\* requests that both saw exactly one slot left are never both past canSendEmail with
\* their sends under way.
C5_CriticalSection ==
    \A g, h \in Requests :
        g # h =>
            ~ /\ req[g].tool = "send_email" /\ req[h].tool = "send_email"
              /\ req[g].n = 1 /\ req[h].n = 1
              /\ req[g].pc = "sending" /\ req[h].pc = "sending"
              /\ Min(req[g].rateStatus.hourlyRemaining, req[g].rateStatus.dailyRemaining) = 1
              /\ Min(req[h].rateStatus.hourlyRemaining, req[h].rateStatus.dailyRemaining) = 1

\* C6: recordEmailSent is called only after the handler's sendEmail has completed with
\* success: every handler has recorded exactly as many events as it has successful
\* results, and an event is recorded only in the step in which a send of that handler
\* completes successfully.
C6_RecordedOnlyAfterSuccess ==
    /\ [](\A h \in Requests : RecordedBy(h) = successCount(req[h].results))
    /\ [][\A h \in Requests :
            RecordedBy(h)' # RecordedBy(h) =>
                /\ req[h].pc = "sending"
                /\ req'[h].results = Append(req[h].results, TRUE)
                /\ RecordedBy(h)' = RecordedBy(h) + 1]_vars
    /\ [](\A i \in DOMAIN log : log[i].by \in Requests)

\* C6 witness: a handler is done with one failed and one successful send, and one event
C6_Witness ==
    \E h \in Requests :
        /\ req[h].pc = "done"
        /\ req[h].results = <<FALSE, TRUE>>
        /\ RecordedBy(h) = 1
        /\ Len(state.dailyRecords) = 1

\* C7: recordEmailSent appends one event stamped with the current time to both windows,
\* so both unexpired counts grow by one, whatever the counts are.
C7_RecordAppendsOne ==
    [][CallRecordEmailSent =>
        /\ state'.hourlyRecords = state.hourlyRecords \o <<[timestamp |-> now]>>
        /\ state'.dailyRecords = state.dailyRecords \o <<[timestamp |-> now]>>
        /\ Unexpired(state'.hourlyRecords, now', ONE_HOUR_MS)
                = Unexpired(state.hourlyRecords, now, ONE_HOUR_MS) + 1
        /\ Unexpired(state'.dailyRecords, now', ONE_DAY_MS)
                = Unexpired(state.dailyRecords, now, ONE_DAY_MS) + 1]_vars

\* C7 witness: an event has been recorded over both limits, twice at the same instant
C7_Witness ==
    /\ ret.op = "recordEmailSent"
    /\ Unexpired(state.hourlyRecords, now, ONE_HOUR_MS) > config.rateLimit.maxPerHour
    /\ Unexpired(state.dailyRecords, now, ONE_DAY_MS) > config.rateLimit.maxPerDay
    /\ Len(state.hourlyRecords) >= 2
    /\ state.hourlyRecords[Len(state.hourlyRecords)].timestamp = now
    /\ state.hourlyRecords[Len(state.hourlyRecords) - 1].timestamp = now

\* C8: the hourlyRemaining and dailyRemaining returned by canSendEmail and
\* getRateLimitStatus are max(0, limit - count), never negative, also above the limit.
C8_RemainingNeverNegative ==
    [][(CallCanSendEmail \/ CallGetRateLimitStatus) =>
        LET hourlyCount == Unexpired(state.hourlyRecords, now, ONE_HOUR_MS)
            dailyCount == Unexpired(state.dailyRecords, now, ONE_DAY_MS)
        IN  /\ ret'.value.hourlyRemaining >= 0
            /\ ret'.value.dailyRemaining >= 0
            /\ ret'.value.hourlyRemaining =
                    Max(0, config.rateLimit.maxPerHour - hourlyCount)
            /\ ret'.value.dailyRemaining =
                    Max(0, config.rateLimit.maxPerDay - dailyCount)]_vars

\* C8 witness: getRateLimitStatus has reported a count above its limit and 0 remaining
C8_Witness ==
    /\ ret.op = "getRateLimitStatus"
    /\ ret.value.hourlyCount > ret.value.hourlyLimit
    /\ ret.value.hourlyRemaining = 0
    /\ ret.value.dailyCount > ret.value.dailyLimit
    /\ ret.value.dailyRemaining = 0

\* C9 as stated: two getRateLimitStatus calls with no limiter call between them report
\* the same hourlyCount and dailyCount.
C9_ReadsNeverChangeCounts ==
    [][(CallGetRateLimitStatus /\ ret.op = "getRateLimitStatus") =>
        /\ ret'.value.hourlyCount = ret.value.hourlyCount
        /\ ret'.value.dailyCount = ret.value.dailyCount]_vars

\* C9 amended: in a step that records no event the counts that a read reports never
\* grow, and they stay as they are unless the clock passes the expiry of a recorded
\* event: reads, which take no time, never change them.
C9_ReadsKeepCountsAtAnInstant ==
    [][log' = log =>
        LET before == ReportedCounts
            after == ReportedCounts'
            expiryPassed ==
                \E i \in DOMAIN log :
                    \/ now < log[i].timestamp + ONE_HOUR_MS
                            /\ now' >= log[i].timestamp + ONE_HOUR_MS
                    \/ now < log[i].timestamp + ONE_DAY_MS
                            /\ now' >= log[i].timestamp + ONE_DAY_MS
        IN  IF now' = now \/ ~expiryPassed
            THEN after = before
            ELSE after[1] <= before[1] /\ after[2] <= before[2]]_vars

\* C9 witness: a read has reported events, after an earlier read purged an expired one
C9_Witness ==
    /\ ret.op = "getRateLimitStatus"
    /\ ret.value.hourlyCount = 1
    /\ ret.value.dailyCount = 1
    /\ Len(log) = 2
    /\ now = log[2].timestamp
    /\ Len(state.dailyRecords) = 1

\* C10 as stated: a canSendEmail call leaves hourlyRecords and dailyRecords unchanged.
C10_CanSendEmailLeavesStateUnchanged ==
    [][CallCanSendEmail => state' = state]_vars

\* C10 amended: a canSendEmail call changes the stored windows only by removing the
\* events that have expired: every unexpired event stays, in order, none is added, and
\* windows without an expired event are left as they are.
C10_CanSendEmailOnlyPurgesExpired ==
    [][CallCanSendEmail =>
        /\ state'.hourlyRecords = KeepUnexpired(state.hourlyRecords, now, ONE_HOUR_MS)
        /\ state'.dailyRecords = KeepUnexpired(state.dailyRecords, now, ONE_DAY_MS)
        /\ (/\ Unexpired(state.hourlyRecords, now, ONE_HOUR_MS) = Len(state.hourlyRecords)
            /\ Unexpired(state.dailyRecords, now, ONE_DAY_MS) = Len(state.dailyRecords))
                => state' = state]_vars

\* C10 witness: canSendEmail has emptied the hourly window of its expired events and
\* kept the same events, unexpired, in the daily window
C10_Witness ==
    /\ ret.op = "canSendEmail"
    /\ Len(log) = 2
    /\ state.hourlyRecords = << >>
    /\ state.dailyRecords = <<[timestamp |-> log[1].timestamp], [timestamp |-> log[2].timestamp]>>
    /\ now >= log[2].timestamp + ONE_HOUR_MS

\* C11: getMaxBatchSize(requested) returns 0 when canSendEmail does not allow and
\* otherwise the least of requested, hourlyRemaining and dailyRemaining, so for
\* requested >= 0 the result lies between 0 and requested.
C11_MaxBatchSize ==
    [][CallGetMaxBatchSize =>
        LET requested == ret'.requested
            hourlyCount == Unexpired(state.hourlyRecords, now, ONE_HOUR_MS)
            dailyCount == Unexpired(state.dailyRecords, now, ONE_DAY_MS)
            allowed == /\ hourlyCount < config.rateLimit.maxPerHour
                       /\ dailyCount < config.rateLimit.maxPerDay
            hourlyRemaining == Max(0, config.rateLimit.maxPerHour - hourlyCount)
            dailyRemaining == Max(0, config.rateLimit.maxPerDay - dailyCount)
        IN  /\ ~allowed => ret'.value = 0
            /\ allowed =>
                /\ ret'.value \in {requested, hourlyRemaining, dailyRemaining}
                /\ ret'.value <= requested
                /\ ret'.value <= hourlyRemaining
                /\ ret'.value <= dailyRemaining
            /\ requested >= 0 => (0 <= ret'.value /\ ret'.value <= requested)]_vars

\* C11 witness: a request was cut down to the daily capacity, below the hourly one
C11_Witness ==
    /\ ret.op = "getMaxBatchSize"
    /\ ret.value > 0
    /\ ret.value < ret.requested
    /\ ret.value = config.rateLimit.maxPerDay - Unexpired(state.dailyRecords, now, ONE_DAY_MS)
    /\ ret.value < config.rateLimit.maxPerHour
                    - Unexpired(state.hourlyRecords, now, ONE_HOUR_MS)

\* C12: from empty windows and with maxPerHour <= maxPerDay, canSendEmail denies with
\* the hourly reason once maxPerHour events have been recorded within one hour, and
\* allows after every shorter run of recordEmailSent calls.
C12_ExhaustedAfterMaxPerHour ==
    [][(/\ CallCanSendEmail
        /\ config.rateLimit.maxPerHour <= config.rateLimit.maxPerDay
        /\ \A i \in DOMAIN log : now < log[i].timestamp + ONE_HOUR_MS) =>
            /\ Len(log) = config.rateLimit.maxPerHour =>
                    (~ret'.value.allowed /\ ret'.value.reason = "Hourly limit reached")
            /\ Len(log) < config.rateLimit.maxPerHour => ret'.value.allowed]_vars

\* C12 witness: canSendEmail has denied for the hourly limit after exactly maxPerHour
\* events, the first of them recorded almost an hour before the check
C12_Witness ==
    /\ ret.op = "canSendEmail"
    /\ ~ret.value.allowed
    /\ ret.value.reason = "Hourly limit reached"
    /\ config.rateLimit.maxPerHour = 2
    /\ config.rateLimit.maxPerDay = 2
    /\ Len(log) = 2
    /\ Len(state.hourlyRecords) = 2
    /\ now = log[1].timestamp + ONE_HOUR_MS - 1

\* C15: for the same window state and instant getRateLimitStatus reports the
\* hourlyRemaining and dailyRemaining that canSendEmail reports, its counts are the
\* numbers of unexpired events and its limits are the configured limits.
C15_StatusAgreesWithCanSendEmail ==
    [][CallGetRateLimitStatus =>
        LET admission == canSendEmail(state, now).value
        IN  /\ ret'.value.hourlyRemaining = admission.hourlyRemaining
            /\ ret'.value.dailyRemaining = admission.dailyRemaining
            /\ ret'.value.hourlyCount = Unexpired(state.hourlyRecords, now, ONE_HOUR_MS)
            /\ ret'.value.dailyCount = Unexpired(state.dailyRecords, now, ONE_DAY_MS)
            /\ ret'.value.hourlyLimit = config.rateLimit.maxPerHour
            /\ ret'.value.dailyLimit = config.rateLimit.maxPerDay]_vars

\* C15 witness: a status read with different hourly and daily numbers, one event
\* having left the hourly window only
C15_Witness ==
    /\ ret.op = "getRateLimitStatus"
    /\ ret.value.hourlyCount = 0
    /\ ret.value.dailyCount = 1
    /\ ret.value.hourlyLimit = 1
    /\ ret.value.dailyLimit = 2
    /\ ret.value.hourlyRemaining = 1
    /\ ret.value.dailyRemaining = 1
    /\ Len(log) = 1

\* C20: the stored windows change only by recordEmailSent appending one event to both
\* and by a read removing expired events; unexpired events are kept as they are, and
\* after a read (canSendEmail, getRateLimitStatus, getMaxBatchSize) no expired event
\* is left in the stored windows.
C20_WindowsGrowByRecordShrinkByExpiry ==
    [][/\ log' # log =>
            /\ state'.hourlyRecords = Append(state.hourlyRecords, [timestamp |-> now])
            /\ state'.dailyRecords = Append(state.dailyRecords, [timestamp |-> now])
       /\ log' = log =>
            \/ state' = state
            \/ /\ state'.hourlyRecords = KeepUnexpired(state.hourlyRecords, now, ONE_HOUR_MS)
               /\ state'.dailyRecords = KeepUnexpired(state.dailyRecords, now, ONE_DAY_MS)
       /\ (CallCanSendEmail \/ CallGetRateLimitStatus \/ CallGetMaxBatchSize) =>
            /\ Unexpired(state'.hourlyRecords, now, ONE_HOUR_MS) = Len(state'.hourlyRecords)
            /\ Unexpired(state'.dailyRecords, now, ONE_DAY_MS) = Len(state'.dailyRecords)
            /\ Len(state'.hourlyRecords) = Unexpired(state.hourlyRecords, now, ONE_HOUR_MS)
            /\ Len(state'.dailyRecords) = Unexpired(state.dailyRecords, now, ONE_DAY_MS)]_vars

\* C20 witness: a read made at the very instant the first event expired from the hourly
\* window has removed it there and kept the later event and both daily ones
C20_Witness ==
    /\ ret.op \in {"canSendEmail", "getRateLimitStatus", "getMaxBatchSize"}
    /\ Len(log) = 2
    /\ now = log[1].timestamp + ONE_HOUR_MS
    /\ log[2].timestamp > log[1].timestamp
    /\ state.hourlyRecords = <<[timestamp |-> log[2].timestamp]>>
    /\ state.dailyRecords = <<[timestamp |-> log[1].timestamp], [timestamp |-> log[2].timestamp]>>

\* C17: when the limit is reached as send_email, compose_and_send or send_bulk_emails
\* starts, the handler returns success = false with the denial reason as error and the
\* current rate-limit numbers, starts no send and records no event, and both windows
\* hold the unexpired events they held before.
C17_DeniedHandlerSendsNothing ==
    [][\A h \in Requests :
        (/\ req[h].pc = "idle"
         /\ req'[h].tool \in {"send_email", "compose_and_send", "send_bulk_emails"}
         /\ \/ Unexpired(state.hourlyRecords, now, ONE_HOUR_MS) >= config.rateLimit.maxPerHour
            \/ Unexpired(state.dailyRecords, now, ONE_DAY_MS) >= config.rateLimit.maxPerDay) =>
            LET hourlyCount == Unexpired(state.hourlyRecords, now, ONE_HOUR_MS)
                dailyCount == Unexpired(state.dailyRecords, now, ONE_DAY_MS)
                maxPerHour == config.rateLimit.maxPerHour
                maxPerDay == config.rateLimit.maxPerDay
            IN  /\ req'[h].pc = "done"
                /\ req'[h].results = << >>
                /\ req'[h].response.success = FALSE
                /\ req'[h].response.error =
                        IF hourlyCount >= maxPerHour
                        THEN "Hourly limit reached"
                        ELSE "Daily limit reached"
                /\ req'[h].response.rate_limit =
                        [hourlyCount |-> hourlyCount,
                         hourlyLimit |-> maxPerHour,
                         hourlyRemaining |-> Max(0, maxPerHour - hourlyCount),
                         dailyCount |-> dailyCount,
                         dailyLimit |-> maxPerDay,
                         dailyRemaining |-> Max(0, maxPerDay - dailyCount)]
                /\ log' = log
                /\ state'.hourlyRecords = KeepUnexpired(state.hourlyRecords, now, ONE_HOUR_MS)
                /\ state'.dailyRecords = KeepUnexpired(state.dailyRecords, now, ONE_DAY_MS)]_vars

\* C17 witness: send_bulk_emails was turned away for the daily limit, the hourly window
\* having room again, after an earlier request sent one email
C17_Witness ==
    \E h \in Requests :
        /\ req[h].tool = "send_bulk_emails"
        /\ req[h].pc = "done"
        /\ req[h].n = 2
        /\ req[h].response.kind = "denied"
        /\ req[h].response.error = "Daily limit reached"
        /\ req[h].response.rate_limit.hourlyRemaining > 0
        /\ req[h].response.rate_limit.dailyCount = 1
        /\ RecordedBy(h) = 0
        /\ Len(log) = 1

\* C18: a batch invocation (send_email with several addresses, send_bulk_emails) that
\* runs with no other request never has more successful sends than the least of the
\* hourlyRemaining and dailyRemaining that canSendEmail returned at its start.
C18_BatchWithinStartCapacity ==
    \A h \in Requests :
        (/\ req[h].tool \in {"send_email", "send_bulk_emails"}
         /\ \A g \in Requests : g # h => req[g].pc = "idle") =>
            successCount(req[h].results)
                <= Min(req[h].rateStatus.hourlyRemaining, req[h].rateStatus.dailyRemaining)

\* C13: the two windows are counted independently: with maxPerHour < maxPerDay, once
\* maxPerHour events have been recorded within one hour from the empty start, the
\* hourly admission is exhausted and dailyRemaining is maxPerDay - maxPerHour
\* (45 for 5 and 50).
C13_WindowsIndependent ==
    [][((CallCanSendEmail \/ CallGetRateLimitStatus)
        /\ config.rateLimit.maxPerHour < config.rateLimit.maxPerDay
        /\ Len(log) = config.rateLimit.maxPerHour
        /\ \A i \in DOMAIN log : now < log[i].timestamp + ONE_HOUR_MS) =>
            /\ ret'.value.hourlyRemaining = 0
            /\ ret'.value.dailyRemaining
                    = config.rateLimit.maxPerDay - config.rateLimit.maxPerHour
            /\ ret'.op = "canSendEmail" =>
                    (~ret'.value.allowed /\ ret'.value.reason = "Hourly limit reached")
            /\ config.rateLimit = [maxPerHour |-> 5, maxPerDay |-> 50] =>
                    ret'.value.dailyRemaining = 45]_vars

\* C13 witness: with 5 per hour and 50 per day, canSendEmail has denied for the hourly
\* limit after five events and reports 45 left for the day
C13_Witness ==
    /\ ret.op = "canSendEmail"
    /\ env.MAX_EMAILS_PER_HOUR = <<"5">>
    /\ env.MAX_EMAILS_PER_DAY = <<"5", "0">>
    /\ Len(log) = 5
    /\ ~ret.value.allowed
    /\ ret.value.reason = "Hourly limit reached"
    /\ ret.value.hourlyRemaining = 0
    /\ ret.value.dailyRemaining = 45

\* the recorded events that have left the hourly window and not the daily one
LeftHourlyOnly ==
    Cardinality({i \in DOMAIN log :
                    /\ now >= log[i].timestamp + ONE_HOUR_MS
                    /\ now < log[i].timestamp + ONE_DAY_MS})

\* C14: with maxPerHour = 2 and maxPerDay = 5 the empty state reports counts 0 and
\* remaining 2 and 5; after two recordEmailSent calls canSendEmail denies with the
\* hourly reason; 61 minutes later, with no further record, it returns allowed,
\* hourlyRemaining 2 and dailyRemaining 3.  For all limits, the events that have left
\* the hourly window are counted in the daily window until they are 24 hours old.
C14_SixtyOneMinutesLater ==
    [][/\ (CallGetRateLimitStatus
           /\ config.rateLimit = [maxPerHour |-> 2, maxPerDay |-> 5]
           /\ log = << >>) =>
                ret'.value = [hourlyCount |-> 0, hourlyLimit |-> 2, hourlyRemaining |-> 2,
                              dailyCount |-> 0, dailyLimit |-> 5, dailyRemaining |-> 5]
       /\ (CallCanSendEmail
           /\ config.rateLimit = [maxPerHour |-> 2, maxPerDay |-> 5]
           /\ Len(log) = 2) =>
                /\ now < log[1].timestamp + ONE_HOUR_MS =>
                        (~ret'.value.allowed /\ ret'.value.reason = "Hourly limit reached")
                /\ (/\ now >= log[2].timestamp + SixtyOneMinutes
                    /\ now < log[1].timestamp + ONE_DAY_MS) =>
                        ret'.value = [allowed |-> TRUE, hourlyRemaining |-> 2,
                                      dailyRemaining |-> 3]
       /\ CallGetRateLimitStatus =>
                ret'.value.dailyCount = ret'.value.hourlyCount + LeftHourlyOnly]_vars

\* C14 witness: 61 minutes after two events recorded at the start, canSendEmail has
\* returned allowed with 2 left for the hour and 3 for the day
C14_Witness ==
    /\ ret.op = "canSendEmail"
    /\ config.rateLimit = [maxPerHour |-> 2, maxPerDay |-> 5]
    /\ Len(log) = 2
    /\ log[1].timestamp = 0
    /\ log[2].timestamp = 0
    /\ now = SixtyOneMinutes
    /\ ret.value = [allowed |-> TRUE, hourlyRemaining |-> 2, dailyRemaining |-> 3]
    /\ state.hourlyRecords = << >>
    /\ Len(state.dailyRecords) = 2

\* C16: no call of canSendEmail, getRateLimitStatus, getMaxBatchSize or recordEmailSent
\* throws, also in a process started without valid Gmail credentials.
C16_LimiterNeverThrows ==
    "threw" \notin DOMAIN ret

\* C19: once getConfig() has built the configuration, it stays as it is whatever
\* becomes of the environment, and every later canSendEmail, getRateLimitStatus and
\* getMaxBatchSize call returns and uses its maxPerHour and maxPerDay.
C19_LimitsSetOnce ==
    [][ConfigLoaded =>
        /\ config' = config
        /\ CallGetRateLimitStatus =>
            /\ ret'.value.hourlyLimit = config.rateLimit.maxPerHour
            /\ ret'.value.dailyLimit = config.rateLimit.maxPerDay
            /\ ret'.value.hourlyRemaining
                    = Max(0, config.rateLimit.maxPerHour - Len(state.hourlyRecords))
            /\ ret'.value.dailyRemaining
                    = Max(0, config.rateLimit.maxPerDay - Len(state.dailyRecords))
        /\ CallCanSendEmail =>
            /\ ret'.value.allowed
                    <=> /\ Len(state.hourlyRecords) < config.rateLimit.maxPerHour
                        /\ Len(state.dailyRecords) < config.rateLimit.maxPerDay
            /\ ret'.value.hourlyRemaining
                    = Max(0, config.rateLimit.maxPerHour - Len(state.hourlyRecords))
            /\ ret'.value.dailyRemaining
                    = Max(0, config.rateLimit.maxPerDay - Len(state.dailyRecords))
        /\ CallGetMaxBatchSize =>
            ret'.value =
                IF /\ Len(state.hourlyRecords) < config.rateLimit.maxPerHour
                   /\ Len(state.dailyRecords) < config.rateLimit.maxPerDay
                THEN Min(ret'.requested,
                         Min(config.rateLimit.maxPerHour - Len(state.hourlyRecords),
                             config.rateLimit.maxPerDay - Len(state.dailyRecords)))
                ELSE 0]_vars

\* C19 witness: getRateLimitStatus has reported the limits loaded at the first call
\* although the environment by now names other limits and lacks the credentials
C19_Witness ==
    /\ ConfigLoaded
    /\ ret.op = "getRateLimitStatus"
    /\ "value" \in DOMAIN ret
    /\ ret.value.hourlyLimit = 1
    /\ ret.value.dailyLimit = 50
    /\ env = [credentials |-> FALSE, MAX_EMAILS_PER_HOUR |-> <<"2">>,
              MAX_EMAILS_PER_DAY |-> <<"1">>]
    /\ Len(state.hourlyRecords) = 1

Sorted(records) ==
    \A i, j \in DOMAIN records : i < j => records[i].timestamp <= records[j].timestamp

\* newest minus oldest timestamp of a window, 0 for an empty one
SpanOf(records) ==
    IF records = << >>
    THEN 0
    ELSE records[Len(records)].timestamp - records[1].timestamp

\* C25: with a clock that never goes back each window is ordered by time, and right
\* after a read the span from the oldest to the newest event of a window is less than
\* the window's duration (1 hour, 24 hours).
C25_WindowsOrderedAndSpanBounded ==
    /\ [](Sorted(state.hourlyRecords) /\ Sorted(state.dailyRecords))
    /\ [][(CallCanSendEmail \/ CallGetRateLimitStatus \/ CallGetMaxBatchSize) =>
            /\ SpanOf(state'.hourlyRecords) < ONE_HOUR_MS
            /\ SpanOf(state'.dailyRecords) < ONE_DAY_MS
            /\ \A i \in DOMAIN state'.hourlyRecords :
                    now - state'.hourlyRecords[i].timestamp < ONE_HOUR_MS
            /\ \A i \in DOMAIN state'.dailyRecords :
                    now - state'.dailyRecords[i].timestamp < ONE_DAY_MS]_vars

\* C25 witness: after a read the daily window spans one millisecond less than an hour
\* and the hourly window holds both events too
C25_Witness ==
    /\ ret.op = "getRateLimitStatus"
    /\ Len(state.hourlyRecords) = 2
    /\ SpanOf(state.hourlyRecords) = ONE_HOUR_MS - 1
    /\ SpanOf(state.dailyRecords) = ONE_HOUR_MS - 1
    /\ now = state.dailyRecords[2].timestamp

\* a queue drops its expired events from the front and stops at the first unexpired one
RECURSIVE EvictFront(_, _, _)
EvictFront(records, t, window) ==
    IF records = << >>
    THEN << >>
    ELSE IF t - Head(records).timestamp >= window
    THEN EvictFront(Tail(records), t, window)
    ELSE records

\* C24: a limiter that keeps each window as a queue and drops expired events only
\* from the front returns what the filter-based one returns: at every read both are
\* left with the same stored windows, and the counts, remaining values and admission
\* decision computed from the queues are the ones the read returns.
C24_FrontEvictionEquivalent ==
    [][(CallCanSendEmail \/ CallGetRateLimitStatus \/ CallGetMaxBatchSize) =>
        LET hourlyQueue == EvictFront(state.hourlyRecords, now, ONE_HOUR_MS)
            dailyQueue == EvictFront(state.dailyRecords, now, ONE_DAY_MS)
            maxPerHour == config.rateLimit.maxPerHour
            maxPerDay == config.rateLimit.maxPerDay
            hourlyRemaining == Max(0, maxPerHour - Len(hourlyQueue))
            dailyRemaining == Max(0, maxPerDay - Len(dailyQueue))
            allowed == Len(hourlyQueue) < maxPerHour /\ Len(dailyQueue) < maxPerDay
        IN  /\ state'.hourlyRecords = hourlyQueue
            /\ state'.dailyRecords = dailyQueue
            /\ CallCanSendEmail =>
                /\ ret'.value.allowed = allowed
                /\ ret'.value.hourlyRemaining = hourlyRemaining
                /\ ret'.value.dailyRemaining = dailyRemaining
            /\ CallGetRateLimitStatus =>
                /\ ret'.value.hourlyCount = Len(hourlyQueue)
                /\ ret'.value.dailyCount = Len(dailyQueue)
                /\ ret'.value.hourlyRemaining = hourlyRemaining
                /\ ret'.value.dailyRemaining = dailyRemaining
            /\ CallGetMaxBatchSize =>
                ret'.value = IF allowed
                             THEN Min(ret'.requested, Min(hourlyRemaining, dailyRemaining))
                             ELSE 0]_vars

\* C24 witness: a read has dropped the older of two events from the front of the hourly
\* window and kept the newer one, both staying in the daily window
C24_Witness ==
    /\ ret.op = "getMaxBatchSize"
    /\ Len(log) = 2
    /\ log[1].timestamp < log[2].timestamp
    /\ now >= log[1].timestamp + ONE_HOUR_MS
    /\ now < log[2].timestamp + ONE_HOUR_MS
    /\ state.hourlyRecords = <<[timestamp |-> log[2].timestamp]>>
    /\ Len(state.dailyRecords) = 2

\* C23: within one send_email or send_bulk_emails invocation the send to the next
\* recipient starts only after a sleep of a getRandomDelay value, at least 3000 ms,
\* has elapsed since the send before it completed.
C23_SleepBetweenSends ==
    [][\A h \in Requests :
        /\ (req[h].pc = "sending" /\ req'[h] # req[h]) =>
                /\ req'[h].pc \in {"sleeping", "done"}
                /\ req'[h].pc = "done" => Len(req'[h].results) = req[h].n
                /\ req'[h].pc = "sleeping" =>
                        /\ req'[h].wakeAt >= now + 3000
                        /\ req'[h].wakeAt <= now + 8000
        /\ (req[h].pc = "sleeping" /\ req'[h].pc = "sleeping") =>
                req'[h].wakeAt = req[h].wakeAt
        /\ (req[h].pc # "sending" /\ req'[h].pc = "sending") =>
                \/ req[h].pc = "idle" /\ req'[h].results = << >>
                \/ req[h].pc = "sleeping" /\ now >= req[h].wakeAt /\ now' = now]_vars

\* C23 witness: the second send of a send_bulk_emails invocation is under way, started
\* after the sleep that followed the first
C23_Witness ==
    \E h \in Requests :
        /\ req[h].tool = "send_bulk_emails"
        /\ req[h].n = 2
        /\ req[h].pc = "sending"
        /\ Len(req[h].results) = 1
        /\ now >= 3000

\* C30 as stated: send_bulk_emails with more recipients than capacity sends to none,
\* records nothing and answers success = false with 'Can only send N emails'.
C30_TooManyAnswersCanOnlySend ==
    [][\A h \in Requests :
        LET hourlyRemaining ==
                Max(0, config.rateLimit.maxPerHour
                        - Unexpired(state.hourlyRecords, now, ONE_HOUR_MS))
            dailyRemaining ==
                Max(0, config.rateLimit.maxPerDay
                        - Unexpired(state.dailyRecords, now, ONE_DAY_MS))
        IN  (/\ req[h].pc = "idle"
             /\ req'[h].tool = "send_bulk_emails"
             /\ req'[h].n > Min(hourlyRemaining, dailyRemaining)) =>
                /\ req'[h].pc = "done"
                /\ req'[h].results = << >>
                /\ log' = log
                /\ req'[h].response.success = FALSE
                /\ req'[h].response.kind = "too_many"
                /\ req'[h].response.maxToSend = Min(hourlyRemaining, dailyRemaining)]_vars

\* C30 amended: send_bulk_emails with more recipients than capacity sends to none,
\* records nothing and answers success = false: with 'Can only send N emails', N the
\* capacity, when the capacity is at least 1, and with the hourly or daily denial
\* reason of canSendEmail when the capacity is 0.
C30_TooManySendsNothing ==
    [][\A h \in Requests :
        LET hourlyRemaining ==
                Max(0, config.rateLimit.maxPerHour
                        - Unexpired(state.hourlyRecords, now, ONE_HOUR_MS))
            dailyRemaining ==
                Max(0, config.rateLimit.maxPerDay
                        - Unexpired(state.dailyRecords, now, ONE_DAY_MS))
            capacity == Min(hourlyRemaining, dailyRemaining)
        IN  (/\ req[h].pc = "idle"
             /\ req'[h].tool = "send_bulk_emails"
             /\ req'[h].n > capacity) =>
                /\ req'[h].pc = "done"
                /\ req'[h].results = << >>
                /\ log' = log
                /\ req'[h].response.success = FALSE
                /\ IF capacity >= 1
                   THEN /\ req'[h].response.kind = "too_many"
                        /\ req'[h].response.maxToSend = capacity
                   ELSE /\ req'[h].response.kind = "denied"
                        /\ req'[h].response.error =
                                IF hourlyRemaining = 0
                                THEN "Hourly limit reached"
                                ELSE "Daily limit reached"]_vars

\* C30 witness: send_bulk_emails to two recipients with room for one has answered
\* 'Can only send 1 emails' and recorded nothing
C30_Witness ==
    \E h \in Requests :
        /\ req[h].tool = "send_bulk_emails"
        /\ req[h].pc = "done"
        /\ req[h].n = 2
        /\ req[h].response.kind = "too_many"
        /\ req[h].response.maxToSend = 1
        /\ req[h].results = << >>
        /\ RecordedBy(h) = 0

\* C26: with maxPerHour <= 0 or maxPerDay <= 0 every canSendEmail call that returns
\* returns allowed = false with a reason, in the empty state too, and getMaxBatchSize
\* returns 0 whatever is requested.
C26_NonPositiveLimitAlwaysDenied ==
    [][(/\ ConfigLoaded'
        /\ \/ config'.rateLimit.maxPerHour <= 0
           \/ config'.rateLimit.maxPerDay <= 0) =>
            /\ (CallCanSendEmail /\ "value" \in DOMAIN ret') =>
                    /\ ~ret'.value.allowed
                    /\ ret'.value.reason \in {"Hourly limit reached", "Daily limit reached"}
                    /\ config'.rateLimit.maxPerHour <= 0 =>
                            ret'.value.reason = "Hourly limit reached"
                    /\ config'.rateLimit.maxPerHour <= 0 => ret'.value.hourlyRemaining = 0
                    /\ config'.rateLimit.maxPerDay <= 0 => ret'.value.dailyRemaining = 0
            /\ (CallGetMaxBatchSize /\ "value" \in DOMAIN ret') => ret'.value = 0]_vars

\* C26 witness: with maxPerDay = -1 and nothing ever recorded canSendEmail has denied
\* for the daily limit, the hourly limit leaving room
C26_Witness ==
    /\ ret.op = "canSendEmail"
    /\ "value" \in DOMAIN ret
    /\ ConfigLoaded
    /\ config.rateLimit.maxPerHour = 1
    /\ config.rateLimit.maxPerDay = 0 - 1
    /\ state = EmptyState
    /\ log = << >>
    /\ ~ret.value.allowed
    /\ ret.value.reason = "Daily limit reached"
    /\ ret.value.hourlyRemaining = 1
    /\ ret.value.dailyRemaining = 0

\* the last canSendEmail call denied
LastCheckDenied == ret.op = "canSendEmail" /\ ~ret.value.allowed

\* the last canSendEmail call allowed
LastCheckAllowed == ret.op = "canSendEmail" /\ ret.value.allowed

\* C21: a denial is recoverable: with positive limits, a clock that keeps advancing
\* and a caller that asks again, every denial of canSendEmail is followed by a call
\* that allows, and a call made 24 hours or more after the most recent recorded event
\* allows.
C21_DenialRecoverable ==
    /\ [][(/\ CallCanSendEmail
           /\ \A i \in DOMAIN log : now >= log[i].timestamp + ONE_DAY_MS) =>
                ret'.value.allowed]_vars
    /\ (LastCheckDenied ~> LastCheckAllowed)

\* C21 witness: canSendEmail has allowed again exactly 24 hours after the last of the
\* events that had filled the daily limit
C21_Witness ==
    /\ LastCheckAllowed
    /\ Len(log) >= config.rateLimit.maxPerDay
    /\ now = log[Len(log)].timestamp + ONE_DAY_MS
    /\ log[Len(log)].timestamp > 0
    /\ state = EmptyState

\* C27: in the standalone HTTP server, under any interleaving of send_email requests,
\* emailsSentThisHour never exceeds MAX_PER_HOUR and emailsSentToday never exceeds
\* MAX_PER_DAY, and check_status never reports a negative remainingThisHour or
\* remainingToday.
C27_HttpCountersWithinLimits ==
    /\ http.emailsSentThisHour <= MAX_PER_HOUR
    /\ http.emailsSentToday <= MAX_PER_DAY
    /\ http.answer.kind = "check_status" =>
            /\ http.answer.remainingThisHour >= 0
            /\ http.answer.remainingToday >= 0

\* C28: in every 60-minute span of a run of the standalone HTTP server at most
\* MAX_PER_HOUR sends succeed, and in every 24-hour span at most MAX_PER_DAY.
C28_HttpAtMostLimitPerSpan ==
    http.span.sent <= http.span.limit

\* the last tools/call was a send_email rejected for the hourly limit
HourlyRejected(answer) ==
    /\ answer.kind = "send_email"
    /\ ~answer.success
    /\ answer.error = "Hourly rate limit reached"

\* C29 as stated: after a send_email request was rejected for the hourly limit, a
\* request made one hour later, the timer callbacks due by then having run, is not
\* rejected for the hourly limit.
C29_HttpAdmittedOneHourLater ==
    [][(/\ HttpSendEmail
        /\ ~http.hourlyDue
        /\ http.rejections.at # << >>
        /\ now = http.rejections.at[1] + ONE_HOUR_MS) =>
            ~ (http'.answer # http.answer /\ HourlyRejected(http'.answer))]_vars

\* C29 amended: the hourly counter is set to 0 at least once in every hour, and a
\* send_email request is rejected for the hourly limit only when MAX_PER_HOUR sends
\* or more have succeeded since the counter was last set to 0; a request after that
\* reset is admitted unless so many further sends succeeded, or the daily limit is
\* reached.
C29_HttpHourlyResetEveryHour ==
    /\ [](now - http.lastHourlyReset <= ONE_HOUR_MS)
    /\ [](~http.hourlyDue => now - http.lastHourlyReset < ONE_HOUR_MS)
    /\ [][(HttpSendEmail /\ http'.rejections # http.rejections) =>
            /\ HourlyRejected(http'.answer)
            /\ http.sentSinceHourlyReset >= MAX_PER_HOUR]_vars
    /\ [][(HttpSendEmail /\ http.sentSinceHourlyReset < MAX_PER_HOUR) =>
            \/ http'.sending = http.sending + 1
            \/ /\ http.emailsSentToday >= MAX_PER_DAY
               /\ http'.answer.error = "Daily rate limit reached"]_vars

\* C29 witness: a request rejected for the hourly limit at the start of the second
\* hour, one hour after an earlier such rejection and after the reset between them
C29_Witness ==
    /\ HourlyRejected(http.answer)
    /\ http.rejections.at = <<now>>
    /\ http.lastHourlyReset = now
    /\ now = ONE_HOUR_MS
    /\ http.sentSinceHourlyReset = MAX_PER_HOUR
    /\ http.emailsSentToday = MAX_PER_HOUR + MAX_PER_HOUR

\* the counts that a read would report are within the configured limits
CountsWithinLimits ==
    /\ ReportedCounts[1] <= config.rateLimit.maxPerHour
    /\ ReportedCounts[2] <= config.rateLimit.maxPerDay

UnexpiredAt(records, ts, t, window) ==
    Cardinality({i \in DOMAIN records :
                    records[i].timestamp = ts /\ t - records[i].timestamp < window})

\* C32: in every reachable state every event that the hourly window counts (an
\* unexpired one) is also counted by the daily window, and every read reports
\* hourlyCount <= dailyCount.
C32_HourlyEventsAreDailyEvents ==
    /\ [](\A i \in DOMAIN state.hourlyRecords :
            UnexpiredAt(state.hourlyRecords, state.hourlyRecords[i].timestamp,
                        now, ONE_HOUR_MS)
                <= UnexpiredAt(state.dailyRecords, state.hourlyRecords[i].timestamp,
                               now, ONE_DAY_MS))
    /\ [][(CallGetRateLimitStatus /\ ~getConfigThrows) =>
            ret'.value.hourlyCount <= ret'.value.dailyCount]_vars

\* C32 witness: a read that counts one event in the hourly window and two in the
\* daily window, the older event having left the hourly window only
C32_Witness ==
    /\ ret.op = "getRateLimitStatus"
    /\ ret.value.hourlyCount = 1
    /\ ret.value.dailyCount = 2
    /\ Len(state.hourlyRecords) = 1
    /\ Len(state.dailyRecords) = 2

C34_FailedSendDoesNotAbortBatch ==
    /\ [](\A h \in Requests :
            req[h].response.kind = "sent" =>
                /\ Len(req[h].results) = req[h].n
                /\ req[h].response.total = req[h].n
                /\ req[h].response.successCount = successCount(req[h].results)
                /\ req[h].response.successCount = RecordedBy(h))
    /\ [][\A h \in Requests :
            (req[h].pc = "sending" /\ req'[h] # req[h]) =>
                /\ Len(req'[h].results) = Len(req[h].results) + 1
                /\ SubSeq(req'[h].results, 1, Len(req[h].results)) = req[h].results
                /\ req'[h].results[Len(req'[h].results)] = (log' # log)
                /\ Len(req'[h].results) < req[h].n => req'[h].pc = "sleeping"]_vars

\* C34 witness: a send to two recipients whose first send failed and whose second
\* succeeded has answered with both results and one success, one event recorded
C34_Witness ==
    \E h \in Requests :
        /\ req[h].response.kind = "sent"
        /\ req[h].n = 2
        /\ req[h].results = <<FALSE, TRUE>>
        /\ req[h].response.successCount = 1
        /\ RecordedBy(h) = 1

\* C35: with positive limits every check_email_status response is self-consistent:
\* can_send is true exactly when hourly.remaining > 0 and daily.remaining > 0.
C35_StatusResponseSelfConsistent ==
    \A h \in Requests :
        req[h].response.kind = "status" =>
            (req[h].response.can_send <=>
                /\ req[h].response.rate_limit.hourlyRemaining > 0
                /\ req[h].response.rate_limit.dailyRemaining > 0)

\* C36: every tool handler returns a result and lets no exception escape, also in
\* the server started with invalid configuration, where every tool answers with a
\* well-formed response and no email is sent.
C36_HandlersAlwaysReturn ==
    \A h \in Requests :
        /\ req[h].pc # "threw"
        /\ req[h].pc # "sending"
        /\ req[h].pc = "done" => req[h].response.kind # "none"
        /\ log = << >>

\* emailsSentThisHour and emailsSentToday
HttpCounters == <<http.emailsSentThisHour, http.emailsSentToday>>

\* the answer of a send_email request that was rejected for a rate limit
RateLimitRejected(answer) ==
    /\ answer.kind = "send_email"
    /\ ~answer.success
    /\ answer.error \in {"Hourly rate limit reached", "Daily rate limit reached"}

\* C37: in the HTTP server the counters change only by a successful Gmail send or
\* a timer reset: a failed send and a request rejected for a rate limit, which
\* starts no Gmail call, leave both unchanged, and each successful send adds
\* exactly one to both.
C37_HttpCountersChangeOnlyBySendOrReset ==
    [][/\ HttpSendComplete(TRUE) =>
            HttpCounters' = <<http.emailsSentThisHour + 1, http.emailsSentToday + 1>>
       /\ HttpSendComplete(FALSE) => HttpCounters' = HttpCounters
       /\ HttpCheckStatus => HttpCounters' = HttpCounters
       /\ HttpSendEmail =>
            /\ HttpCounters' = HttpCounters
            /\ \/ http'.sending = http.sending + 1 /\ http'.answer = http.answer
               \/ http'.sending = http.sending /\ RateLimitRejected(http'.answer)
       /\ HttpCounters' # HttpCounters =>
            \/ HttpSendComplete(TRUE)
            \/ HttpResetHourly
            \/ HttpResetDaily
            \/ HttpTick]_vars

\* C37 witness: a send has just failed after an earlier one succeeded, and both
\* counters still stand at one
C37_Witness ==
    /\ http.answer.kind = "send_email"
    /\ ~http.answer.success
    /\ http.answer.error = "Gmail API error"
    /\ HttpCounters = <<1, 1>>
    /\ http.sending = 0

\* C38: sseConnections holds exactly the sessions opened and not yet closed; the
\* response to a POST /message with sessionId S is pushed onto no stream but that of
\* S, and only if S is registered when the response is made, also when S has
\* closed while the tool call awaited Gmail; every POST gets exactly one HTTP
\* response.
C38_SsePushOnlyToRegisteredSession ==
    /\ [](http.sseConnections = (1 .. http.nextSession) \ http.closed)
    /\ [](\A p \in Posts :
            /\ http.posts[p].pushed \subseteq {http.posts[p].sessionId} \ {0}
            /\ Len(http.posts[p].responses) = (IF http.posts[p].pc = "done" THEN 1 ELSE 0))
    /\ [][\A p \in Posts :
            http'.posts[p].pushed # http.posts[p].pushed =>
                /\ http'.posts[p].pushed \subseteq http.sseConnections
                /\ http'.posts[p].pushed \cap http.closed = {}]_vars
    /\ [][\A p \in Posts :
            (http.posts[p].pc # "done" /\ http'.posts[p].pc = "done"
                /\ http'.posts[p].responses = <<200>>
                /\ http'.posts[p].sessionId \in http.sseConnections) =>
                    http'.posts[p].pushed = {http'.posts[p].sessionId}]_vars

\* C38 witness: a send_email request was answered after its session had closed
\* during the Gmail call: one HTTP response, nothing pushed; another session is
\* still registered
C38_Witness ==
    \E p \in Posts :
        /\ http.posts[p].pc = "done"
        /\ http.posts[p].sessionId \in http.closed
        /\ http.posts[p].pushed = {}
        /\ http.posts[p].responses = <<200>>
        /\ http.answer.kind = "send_email"
        /\ http.emailsSentThisHour >= 1
        /\ http.sseConnections # {}

====
